---------------------------- MODULE Spec2Model ----------------------------
(***************************************************************************)
(* A model of plane-cli's settings resolution (src/src/settings.rs):       *)
(* Settings::load builds a JSON document from the defaults, merges the two *)
(* config files into it with deep_merge, applies the environment variables *)
(* and the command-line overrides, and decodes the document into the typed *)
(* Settings record.                                                        *)
(*                                                                         *)
(* Representation.                                                         *)
(*   - A serde_json::Value is a tagged record: [t |-> "null"],             *)
(*     [t |-> "num", v |-> n] (an integer; n < 0 is serde_json's NegInt),  *)
(*     [t |-> "str", v |-> s], [t |-> "arr", v |-> <<...>>] and            *)
(*     [t |-> "obj", v |-> m], m a function from keys to values.           *)
(*   - An Option<T> is a sequence of length 0 (None) or 1 (Some).          *)
(*   - A string the code only copies and compares is a TLA+ string; the    *)
(*     text of PLANE_CLI_TIMEOUT, which the code parses, is a sequence of  *)
(*     characters.                                                         *)
(*   - A file is missing, unreadable, or a text; a text either denotes a   *)
(*     JSON value or is not valid JSON (serde_json's grammar itself is not *)
(*     modelled).                                                          *)
(***************************************************************************)
EXTENDS Integers, Sequences, FiniteSets, TLC

VARIABLES
    fs,      \* the two config files, by file name under <home>/config
    env,     \* the environment: PLANE_CLI_HOME and the four PLANE_CLI_*
             \* settings variables, each an Option
    cli,     \* the CliOverrides handed to Settings::load
    pc,      \* the position inside Settings::load
    value,   \* the local `value` of Settings::load: the document being built
             \* (in a direct call of deep_merge: its `base`)
    base_arg,    \* in a direct call of deep_merge: `base` as it was at the call
    overlay_arg, \* in a direct call of deep_merge: its `overlay`
    result,  \* what Settings::load has produced so far
    argv,    \* the command line of the process, apart from the four settings
             \* flags (which are `cli`): --json, --help, the subcommand and
             \* its options
    client,  \* main's `client`: an Option of the Client that Client::new built
    call,    \* the call of a Client verb in progress: an Option of its verb,
             \* path, query parameters and body
    requests,  \* the HTTP requests the process has sent, in order
    response,  \* an Option of what the network gave for the request sent
    data,      \* what the Client verb has returned
    stdout,    \* what the process has written to standard output, in order
    stderr,    \* what the process has written to standard error, in order
    exit_code  \* an Option of the exit code of the process

\* the state of Settings::load and of a direct call of deep_merge
loadVars == <<fs, env, cli, value, base_arg, overlay_arg, result>>

\* the state of the process around Settings::load
runVars == <<argv, client, call, requests, response, data, stdout, stderr, exit_code>>

vars == <<fs, env, cli, pc, value, base_arg, overlay_arg, result,
          argv, client, call, requests, response, data, stdout, stderr, exit_code>>

-----------------------------------------------------------------------------
(* Option<T> *)

None == <<>>
Some(x) == <<x>>
IsSome(o) == o # <<>>
Unwrap(o) == o[1]

-----------------------------------------------------------------------------
(* serde_json::Value *)

JNull == [t |-> "null"]
JNum(n) == [t |-> "num", v |-> n]
JStr(s) == [t |-> "str", v |-> s]
JArr(a) == [t |-> "arr", v |-> a]
JObj(m) == [t |-> "obj", v |-> m]

\* Map::insert on the map of an object
MapInsert(m, k, x) == [j \in DOMAIN m \cup {k} |-> IF j = k THEN x ELSE m[j]]

-----------------------------------------------------------------------------
(* Settings and its defaults *)

Fields == {"api_key", "base_url", "workspace", "timeout"}

DefaultBaseUrl == "https://api.plane.so"
DefaultTimeout == 30

DefaultSettings ==
    [api_key |-> None, base_url |-> DefaultBaseUrl,
     workspace |-> None, timeout |-> DefaultTimeout]

\* Serialize for Option<String>: None is null, Some(s) the string
OptionToValue(o) == IF IsSome(o) THEN JStr(Unwrap(o)) ELSE JNull

\* serde_json::to_value of a Settings (derive(Serialize))
ToValue(s) ==
    JObj([k \in Fields |->
            CASE k = "api_key" -> OptionToValue(s.api_key)
              [] k = "base_url" -> JStr(s.base_url)
              [] k = "workspace" -> OptionToValue(s.workspace)
              [] k = "timeout" -> JNum(s.timeout)])

-----------------------------------------------------------------------------
(* deep_merge *)

\* deep_merge(base, overlay), as the value `base` holds afterwards: two objects
\* are merged key by key, a key the base lacks being inserted as null first;
\* in every other case the overlay is cloned over the base.
RECURSIVE deep_merge(_, _)

\* A faulty variant: a value the base already has (anything but null) is kept.
deep_merge_keeps_base(base, overlay) ==
    IF base.t = "obj" /\ overlay.t = "obj"
    THEN JObj([key \in DOMAIN base.v \cup DOMAIN overlay.v |->
                 IF key \in DOMAIN overlay.v
                 THEN deep_merge(IF key \in DOMAIN base.v THEN base.v[key] ELSE JNull,
                                 overlay.v[key])
                 ELSE base.v[key]])
    ELSE IF base.t = "null" THEN overlay ELSE base

\* A faulty variant: a shallow merge, the overlay's value replacing the base's under
\* every key of the overlay.
deep_merge_shallow(base, overlay) ==
    IF base.t = "obj" /\ overlay.t = "obj"
    THEN JObj([key \in DOMAIN base.v \cup DOMAIN overlay.v |->
                 IF key \in DOMAIN overlay.v THEN overlay.v[key] ELSE base.v[key]])
    ELSE overlay

\* A faulty variant: two arrays are concatenated.
deep_merge_concat(base, overlay) ==
    IF base.t = "obj" /\ overlay.t = "obj"
    THEN JObj([key \in DOMAIN base.v \cup DOMAIN overlay.v |->
                 IF key \in DOMAIN overlay.v
                 THEN deep_merge(IF key \in DOMAIN base.v THEN base.v[key] ELSE JNull,
                                 overlay.v[key])
                 ELSE base.v[key]])
    ELSE IF base.t = "arr" /\ overlay.t = "arr" THEN JArr(base.v \o overlay.v)
    ELSE overlay

\* A faulty variant: a null of the overlay leaves the base's value in place.
deep_merge_null_skips(base, overlay) ==
    IF base.t = "obj" /\ overlay.t = "obj"
    THEN JObj([key \in DOMAIN base.v \cup DOMAIN overlay.v |->
                 IF key \in DOMAIN overlay.v
                 THEN deep_merge(IF key \in DOMAIN base.v THEN base.v[key] ELSE JNull,
                                 overlay.v[key])
                 ELSE base.v[key]])
    ELSE IF overlay.t = "null" THEN base ELSE overlay

deep_merge(base, overlay) ==
    IF base.t = "obj" /\ overlay.t = "obj"
    THEN JObj([key \in DOMAIN base.v \cup DOMAIN overlay.v |->
                 IF key \in DOMAIN overlay.v
                 THEN deep_merge(IF key \in DOMAIN base.v THEN base.v[key] ELSE JNull,
                                 overlay.v[key])
                 ELSE base.v[key]])
    ELSE overlay

-----------------------------------------------------------------------------
(* Results and errors *)

\* An anyhow error is the chain of its messages, outermost context first, as
\* format!("{:#}") prints it; a message is a sequence of pieces, and a path is
\* one piece.
Ok(x) == [tag |-> "Ok", val |-> x]
Err(chain) == [tag |-> "Err", chain |-> chain]
Panic(msg) == [tag |-> "Panic", msg |-> msg]
Pending == [tag |-> "Pending"]

IsOk(r) == r.tag = "Ok"
IsErr(r) == r.tag = "Err"

\* Context::context / with_context on an Err
WithContext(r, msg) == IF IsErr(r) THEN Err(<<msg>> \o r.chain) ELSE r

\* Settings::load called on its own, or deep_merge called on its own: there is
\* no process around the call.
NoRun ==
    /\ argv = None
    /\ client = None
    /\ call = None
    /\ requests = <<>>
    /\ response = None
    /\ data = Pending
    /\ stdout = <<>>
    /\ stderr = <<>>
    /\ exit_code = None

-----------------------------------------------------------------------------
(* Files *)

SettingsJson == "settings.json"
SettingsLocalJson == "settings.local.json"
FileNames == {SettingsJson, SettingsLocalJson}

Missing == [st |-> "missing"]
Unreadable == [st |-> "unreadable"]
\* a text that is valid JSON and denotes the value doc
JsonText(doc) == [st |-> "text", json |-> Some(doc)]
\* a text that is not valid JSON
Garbage == [st |-> "text", json |-> None]

\* home_dir(): PLANE_CLI_HOME when set, the current directory otherwise
home_dir(e) == IF IsSome(e["PLANE_CLI_HOME"]) THEN Unwrap(e["PLANE_CLI_HOME"]) ELSE "."

\* home.join("config").join(name), as Path::display prints it
ConfigPath(e, name) == <<home_dir(e), "/config/", name>>

\* std::fs::read_to_string
read_to_string(file) ==
    CASE file.st = "missing" -> Err(<<<<"NotFound">>>>)
      [] file.st = "unreadable" -> Err(<<<<"io error">>>>)
      [] file.st = "text" -> Ok(file)

\* serde_json::from_str::<Value>
from_str(text) ==
    IF IsSome(text.json) THEN Ok(Unwrap(text.json))
    ELSE Err(<<<<"expected value">>>>)

\* A faulty variant: a file that is not found is an error like any other read error.
merge_file_notfound_error(base, path, file) ==
    LET content == read_to_string(file) IN
    IF IsErr(content)
    THEN [ret |-> WithContext(content, <<"failed to read ">> \o path), base |-> base]
    ELSE LET overlay == WithContext(from_str(content.val),
                                    <<"invalid JSON in ">> \o path) IN
         IF IsErr(overlay)
         THEN [ret |-> overlay, base |-> base]
         ELSE [ret |-> Ok(<<>>), base |-> deep_merge(base, overlay.val)]

\* A faulty variant: the parse error is passed on without the context that names the path.
merge_file_no_context(base, path, file) ==
    LET content == read_to_string(file) IN
    IF IsErr(content)
    THEN IF content.chain = <<<<"NotFound">>>>
         THEN [ret |-> Ok(<<>>), base |-> base]
         ELSE [ret |-> WithContext(content, <<"failed to read ">> \o path),
               base |-> base]
    ELSE LET overlay == from_str(content.val) IN
         IF IsErr(overlay)
         THEN [ret |-> overlay, base |-> base]
         ELSE [ret |-> Ok(<<>>), base |-> deep_merge(base, overlay.val)]

\* A faulty variant: a file that cannot be read or parsed is skipped like a missing one.
merge_file_skips_failures(base, path, file) ==
    LET content == read_to_string(file) IN
    IF IsErr(content)
    THEN [ret |-> Ok(<<>>), base |-> base]
    ELSE LET overlay == from_str(content.val) IN
         IF IsErr(overlay)
         THEN [ret |-> Ok(<<>>), base |-> base]
         ELSE [ret |-> Ok(<<>>), base |-> deep_merge(base, overlay.val)]

\* merge_file(base, path) with `file` what is at path: the Result it returns
\* and the value `base` holds afterwards.
merge_file(base, path, file) ==
    LET content == read_to_string(file) IN
    IF IsErr(content)
    THEN IF content.chain = <<<<"NotFound">>>>
         THEN [ret |-> Ok(<<>>), base |-> base]
         ELSE [ret |-> WithContext(content, <<"failed to read ">> \o path),
               base |-> base]
    ELSE LET overlay == WithContext(from_str(content.val),
                                    <<"invalid JSON in ">> \o path) IN
         IF IsErr(overlay)
         THEN [ret |-> overlay, base |-> base]
         ELSE [ret |-> Ok(<<>>), base |-> deep_merge(base, overlay.val)]

-----------------------------------------------------------------------------
(* The environment and command-line layers *)

EnvApiKey == "PLANE_CLI_API_KEY"
EnvBaseUrl == "PLANE_CLI_BASE_URL"
EnvWorkspace == "PLANE_CLI_WORKSPACE"
EnvTimeout == "PLANE_CLI_TIMEOUT"
EnvHome == "PLANE_CLI_HOME"
EnvNames == {EnvHome, EnvApiKey, EnvBaseUrl, EnvWorkspace, EnvTimeout}

Digits == <<"0", "1", "2", "3", "4", "5", "6", "7", "8", "9">>
IsDigit(c) == \E i \in DOMAIN Digits : Digits[i] = c
DigitVal(c) == (CHOOSE i \in DOMAIN Digits : Digits[i] = c) - 1

RECURSIVE DecimalValue(_)
DecimalValue(ds) ==
    IF ds = <<>> THEN 0
    ELSE 10 * DecimalValue(SubSeq(ds, 1, Len(ds) - 1)) + DigitVal(ds[Len(ds)])

\* A faulty variant: a text that does not parse counts as 0 (parse().unwrap_or(0)).
ParseU64Lenient(text) ==
    LET digits == IF text # <<>> /\ text[1] = "+" THEN Tail(text) ELSE text IN
    IF digits # <<>> /\ \A i \in DOMAIN digits : IsDigit(digits[i])
    THEN Ok(DecimalValue(digits))
    ELSE Ok(0)

\* str::parse::<u64>: an optional '+' and then one or more decimal digits; the
\* empty string, a lone sign, a '-' and any other character are errors.  A
\* value above u64::MAX is an error too; the texts of this model are far
\* shorter than the 20 digits that takes.
ParseU64(text) ==
    IF text = <<>> THEN Err(<<<<"Empty">>>>)
    ELSE IF Len(text) = 1 /\ text[1] \in {"+", "-"} THEN Err(<<<<"InvalidDigit">>>>)
    ELSE LET digits == IF text[1] = "+" THEN Tail(text) ELSE text IN
         IF \A i \in DOMAIN digits : IsDigit(digits[i])
         THEN Ok(DecimalValue(digits))
         ELSE Err(<<<<"InvalidDigit">>>>)

\* base.as_object_mut().expect("base must be an object")
ExpectObject(base) ==
    IF base.t = "obj" THEN Ok(base.v) ELSE Panic("base must be an object")

\* merge_env(base) under the environment e: Ok with the value `base` holds
\* afterwards, or the panic of the expect.
merge_env(base, e) ==
    LET map == ExpectObject(base) IN
    IF ~IsOk(map) THEN map
    ELSE LET m1 == IF IsSome(e[EnvApiKey])
                   THEN MapInsert(map.val, "api_key", JStr(Unwrap(e[EnvApiKey])))
                   ELSE map.val
             m2 == IF IsSome(e[EnvBaseUrl])
                   THEN MapInsert(m1, "base_url", JStr(Unwrap(e[EnvBaseUrl])))
                   ELSE m1
             m3 == IF IsSome(e[EnvWorkspace])
                   THEN MapInsert(m2, "workspace", JStr(Unwrap(e[EnvWorkspace])))
                   ELSE m2
             m4 == IF IsSome(e[EnvTimeout]) /\ IsOk(ParseU64(Unwrap(e[EnvTimeout])))
                   THEN MapInsert(m3, "timeout",
                                  JNum(ParseU64(Unwrap(e[EnvTimeout])).val))
                   ELSE m3
         IN Ok(JObj(m4))

\* A faulty variant: a flag is inserted only where the document has no value yet
\* (entry().or_insert()).
merge_cli_keeps_existing(base, c) ==
    LET map == ExpectObject(base)
        put(m, k, x) == IF k \in DOMAIN m THEN m ELSE MapInsert(m, k, x)
    IN
    IF ~IsOk(map) THEN map
    ELSE LET m1 == IF IsSome(c.api_key)
                   THEN put(map.val, "api_key", JStr(Unwrap(c.api_key)))
                   ELSE map.val
             m2 == IF IsSome(c.base_url)
                   THEN put(m1, "base_url", JStr(Unwrap(c.base_url)))
                   ELSE m1
             m3 == IF IsSome(c.workspace)
                   THEN put(m2, "workspace", JStr(Unwrap(c.workspace)))
                   ELSE m2
             m4 == IF IsSome(c.timeout)
                   THEN put(m3, "timeout", JNum(Unwrap(c.timeout)))
                   ELSE m3
         IN Ok(JObj(m4))

\* A faulty variant: a field whose flag is not given is set to null.
merge_cli_nulls_absent(base, c) ==
    LET map == ExpectObject(base) IN
    IF ~IsOk(map) THEN map
    ELSE Ok(JObj([k \in DOMAIN map.val \cup Fields |->
                    IF k \notin Fields THEN map.val[k]
                    ELSE IF ~IsSome(c[k]) THEN JNull
                    ELSE IF k = "timeout" THEN JNum(Unwrap(c[k]))
                    ELSE JStr(Unwrap(c[k]))]))

\* merge_cli(base, cli): Ok with the value `base` holds afterwards, or the
\* panic of the expect.
merge_cli(base, c) ==
    LET map == ExpectObject(base) IN
    IF ~IsOk(map) THEN map
    ELSE LET m1 == IF IsSome(c.api_key)
                   THEN MapInsert(map.val, "api_key", JStr(Unwrap(c.api_key)))
                   ELSE map.val
             m2 == IF IsSome(c.base_url)
                   THEN MapInsert(m1, "base_url", JStr(Unwrap(c.base_url)))
                   ELSE m1
             m3 == IF IsSome(c.workspace)
                   THEN MapInsert(m2, "workspace", JStr(Unwrap(c.workspace)))
                   ELSE m2
             m4 == IF IsSome(c.timeout)
                   THEN MapInsert(m3, "timeout", JNum(Unwrap(c.timeout)))
                   ELSE m3
         IN Ok(JObj(m4))

-----------------------------------------------------------------------------
(* Decoding the merged document: derive(Deserialize) for Settings *)

\* A faulty variant: a value that is neither null nor a string is read as None.
DecodeOptionStringLenient(v) ==
    IF v.t = "str" THEN Ok(Some(v.v)) ELSE Ok(None)

\* Deserialize for Option<String>: null is None, a string is Some
DecodeOptionString(v) ==
    CASE v.t = "null" -> Ok(None)
      [] v.t = "str" -> Ok(Some(v.v))
      [] OTHER -> Err(<<<<"invalid type: ", v.t, ", expected a string">>>>)

\* Deserialize for String
DecodeString(v) ==
    IF v.t = "str" THEN Ok(v.v)
    ELSE Err(<<<<"invalid type: ", v.t, ", expected a string">>>>)

\* A faulty variant: the timeout is decoded as a signed integer.
DecodeU64Signed(v) ==
    IF v.t = "num" THEN Ok(v.v)
    ELSE Err(<<<<"invalid type: ", v.t, ", expected i64">>>>)

\* Deserialize for u64: a number that is not negative
DecodeU64(v) ==
    IF v.t = "num"
    THEN IF v.v >= 0 THEN Ok(v.v)
         ELSE Err(<<<<"invalid value: ", "negative integer", ", expected u64">>>>)
    ELSE Err(<<<<"invalid type: ", v.t, ", expected u64">>>>)

DecodeField(k, v) ==
    CASE k = "api_key" -> DecodeOptionString(v)
      [] k = "base_url" -> DecodeString(v)
      [] k = "workspace" -> DecodeOptionString(v)
      [] k = "timeout" -> DecodeU64(v)

\* the fields in the order of the struct, and in the order of the map's keys
FieldOrder == <<"api_key", "base_url", "workspace", "timeout">>
KeyOrder == <<"api_key", "base_url", "timeout", "workspace">>

\* a field the document lacks: an Option is None, any other field is an error
MissingField(k) ==
    IF k \in {"api_key", "workspace"} THEN Ok(None)
    ELSE Err(<<<<"missing field ", k>>>>)

\* the derived visitor's visit_map: the object is read key by key, a key that
\* is no field being skipped; the first field that fails to decode is the
\* error, and then the first field that is missing and is no Option.
visit_map(m) ==
    LET got(k) == IF k \in DOMAIN m THEN DecodeField(k, m[k]) ELSE MissingField(k)
        badKeys == {i \in DOMAIN KeyOrder :
                      KeyOrder[i] \in DOMAIN m /\ IsErr(got(KeyOrder[i]))}
        badMiss == {i \in DOMAIN FieldOrder : IsErr(got(FieldOrder[i]))}
        least(S) == CHOOSE i \in S : \A j \in S : i <= j
    IN IF badKeys # {} THEN got(KeyOrder[least(badKeys)])
       ELSE IF badMiss # {} THEN got(FieldOrder[least(badMiss)])
       ELSE Ok([k \in Fields |-> got(k).val])

\* the derived visitor's visit_seq: the array is read as the fields in order
visit_seq(a) ==
    LET got(i) == DecodeField(FieldOrder[i], a[i])
        bad == {i \in DOMAIN FieldOrder : i <= Len(a) /\ IsErr(got(i))}
        least(S) == CHOOSE i \in S : \A j \in S : i <= j
    IN IF bad # {} THEN got(least(bad))
       ELSE IF Len(a) # Len(FieldOrder)
       THEN Err(<<<<"invalid length ", "struct Settings with 4 elements">>>>)
       ELSE Ok([k \in Fields |->
                  got(CHOOSE i \in DOMAIN FieldOrder : FieldOrder[i] = k).val])

\* A faulty variant: a key that is no field is an error (serde(deny_unknown_fields)).
from_value_deny_unknown(v) ==
    CASE v.t = "obj" ->
           IF DOMAIN v.v \subseteq Fields THEN visit_map(v.v)
           ELSE Err(<<<<"unknown field">>>>)
      [] v.t = "arr" -> visit_seq(v.v)
      [] OTHER -> Err(<<<<"invalid type: ", v.t, ", expected struct Settings">>>>)

\* serde_json::from_value::<Settings>: an object or an array is handed to the
\* derived visitor, anything else is an error.
from_value(v) ==
    CASE v.t = "obj" -> visit_map(v.v)
      [] v.t = "arr" -> visit_seq(v.v)
      [] OTHER -> Err(<<<<"invalid type: ", v.t, ", expected struct Settings">>>>)

-----------------------------------------------------------------------------
(* Settings::load as a whole *)

\* Settings::load(c) with the files f and the environment e: what it returns,
\* or the panic it ends in.
load(f, e, c) ==
    LET r1 == merge_file(ToValue(DefaultSettings), ConfigPath(e, SettingsJson),
                         f[SettingsJson])
    IN IF IsErr(r1.ret) THEN r1.ret
       ELSE LET r2 == merge_file(r1.base, ConfigPath(e, SettingsLocalJson),
                                 f[SettingsLocalJson])
            IN IF IsErr(r2.ret) THEN r2.ret
               ELSE LET r3 == merge_env(r2.base, e)
                    IN IF ~IsOk(r3) THEN r3
                       ELSE LET r4 == merge_cli(r3.val, c)
                            IN IF ~IsOk(r4) THEN r4
                               ELSE WithContext(from_value(r4.val),
                                                <<"failed to parse merged settings">>)

-----------------------------------------------------------------------------
(* The HTTP client (src/src/client.rs) *)

\* A text is a string as a sequence of pieces: every "/" at either end of the
\* string is a piece of its own, so that the trimming of slashes is modelled.

\* str::trim_end_matches(c)
RECURSIVE trim_end_matches(_, _)
trim_end_matches(text, c) ==
    IF text # <<>> /\ text[Len(text)] = c
    THEN trim_end_matches(SubSeq(text, 1, Len(text) - 1), c)
    ELSE text

\* A faulty variant: one leading c is removed, not all of them.
trim_start_once(text, c) ==
    IF text # <<>> /\ Head(text) = c THEN Tail(text) ELSE text

\* str::trim_start_matches(c)
RECURSIVE trim_start_matches(_, _)
trim_start_matches(text, c) ==
    IF text # <<>> /\ Head(text) = c
    THEN trim_start_matches(Tail(text), c)
    ELSE text

\* strings that are no legal header value (they hold a control character)
ControlCharStrings == {"key\nsecond-line"}

\* HeaderValue::from_str
HeaderValue_from_str(s) ==
    IF s \in ControlCharStrings THEN Err(<<<<"failed to parse header value">>>>)
    ELSE Ok(s)

\* A faulty variant: without an API key the client is built all the same, with
\* an empty key.
Client_new_without_key(settings, json_mode) ==
    LET key == IF IsSome(settings.api_key) THEN Unwrap(settings.api_key) ELSE ""
        h == HeaderValue_from_str(key)
    IN IF IsErr(h) THEN WithContext(h, <<"invalid API key value">>)
       ELSE Ok([base_url |-> trim_end_matches(settings.base_url, "/")
                               \o <<"/", "api/v1">>,
                headers |-> [n \in {"X-API-Key"} |-> h.val],
                timeout |-> settings.timeout,
                show_spinner |-> ~json_mode])

\* Client::new(settings, json_mode); settings.base_url is a text.  (The em dash
\* of the first message is written "--"; a failure of the reqwest builder is
\* not modelled.)
Client_new(settings, json_mode) ==
    IF ~IsSome(settings.api_key)
    THEN Err(<<<<"API key is required",
                 " -- set it via --api-key, PLANE_CLI_API_KEY, or config file">>>>)
    ELSE LET h == HeaderValue_from_str(Unwrap(settings.api_key)) IN
         IF IsErr(h) THEN WithContext(h, <<"invalid API key value">>)
         ELSE Ok([base_url |-> trim_end_matches(settings.base_url, "/")
                                 \o <<"/", "api/v1">>,
                  headers |-> [n \in {"X-API-Key"} |-> h.val],
                  timeout |-> settings.timeout,
                  show_spinner |-> ~json_mode])

\* format!("{}/{}", self.base_url, path.trim_start_matches('/'))
Url(c, path) == c.base_url \o <<"/">> \o trim_start_matches(path, "/")

\* the request a verb builds: its method, URL, query and JSON body (an Option),
\* with the client's default headers
Request(c, method, path, query, body) ==
    [method |-> method, url |-> Url(c, path), query |-> query, body |-> body,
     headers |-> c.headers]

\* What the network gives for a request: a failure of the transport (no
\* connection, timeout), or a response with a status and a body.  A body is
\* read in full or breaks off; a body read in full is a text, which denotes a
\* JSON value or is not valid JSON.
Failure(cause) == [kind |-> "failure", cause |-> cause]
Reply(status, body) == [kind |-> "response", status |-> status, body |-> body]
Body(text, json) == [read |-> TRUE, text |-> text, json |-> json]
BrokenBody == [read |-> FALSE]

\* StatusCode::is_success
is_success(status) == 200 <= status /\ status <= 299

\* Response::json::<Value>()
response_json(body) ==
    IF body.read /\ IsSome(body.json) THEN Ok(Unwrap(body.json))
    ELSE Err(<<<<"error decoding response body">>>>)

\* Response::text().await.unwrap_or_default()
response_text(body) == IF body.read THEN body.text ELSE ""

\* Display of a StatusCode: the number (the reason phrase is left out)
StatusDisplay(status) == ToString(status)

\* A faulty variant: only the status 500 is a server error.
handle_response_only_500(r) ==
    IF is_success(r.status)
    THEN WithContext(response_json(r.body), <<"failed to parse response JSON">>)
    ELSE LET body_text == response_text(r.body) IN
         CASE r.status = 401 -> Err(<<<<"unauthorized", " -- check your API key">>>>)
           [] r.status = 404 -> Err(<<<<"not found", ": ", body_text>>>>)
           [] r.status = 429 -> Err(<<<<"rate limited", " -- try again later">>>>)
           [] r.status = 500 ->
                Err(<<<<"server error", " (", StatusDisplay(r.status), "): ", body_text>>>>)
           [] OTHER ->
                Err(<<<<"request failed", " (", StatusDisplay(r.status), "): ", body_text>>>>)

\* A faulty variant: a 2xx response whose body is empty gives null.
handle_response_empty_is_null(r) ==
    IF is_success(r.status)
    THEN IF r.body.read /\ r.body.text = "" THEN Ok(JNull)
         ELSE WithContext(response_json(r.body), <<"failed to parse response JSON">>)
    ELSE LET body_text == response_text(r.body) IN
         CASE r.status = 401 -> Err(<<<<"unauthorized", " -- check your API key">>>>)
           [] r.status = 404 -> Err(<<<<"not found", ": ", body_text>>>>)
           [] r.status = 429 -> Err(<<<<"rate limited", " -- try again later">>>>)
           [] r.status \in 500..599 ->
                Err(<<<<"server error", " (", StatusDisplay(r.status), "): ", body_text>>>>)
           [] OTHER ->
                Err(<<<<"request failed", " (", StatusDisplay(r.status), "): ", body_text>>>>)

\* handle_response(response); each message is a sequence of pieces, its
\* literal head first (the em dashes are written "--").
handle_response(r) ==
    IF is_success(r.status)
    THEN WithContext(response_json(r.body), <<"failed to parse response JSON">>)
    ELSE LET body_text == response_text(r.body) IN
         CASE r.status = 401 -> Err(<<<<"unauthorized", " -- check your API key">>>>)
           [] r.status = 404 -> Err(<<<<"not found", ": ", body_text>>>>)
           [] r.status = 429 -> Err(<<<<"rate limited", " -- try again later">>>>)
           [] r.status \in 500..599 ->
                Err(<<<<"server error", " (", StatusDisplay(r.status), "): ", body_text>>>>)
           [] OTHER ->
                Err(<<<<"request failed", " (", StatusDisplay(r.status), "): ", body_text>>>>)

\* a call of a verb: the verb, its path, its query parameters, its body
Call(verb, path, query, body) ==
    [verb |-> verb, path |-> path, query |-> query, body |-> body]

\* the verbs of Client and the HTTP method each sends
Verbs == {"get", "get_with_params", "post", "patch", "delete"}
MethodOf(verb) ==
    CASE verb \in {"get", "get_with_params"} -> "GET"
      [] verb = "post" -> "POST"
      [] verb = "patch" -> "PATCH"
      [] verb = "delete" -> "DELETE"

\* A faulty variant: the request goes out twice.
send_twice(reqs, r) == Append(Append(reqs, r), r)

\* RequestBuilder::send(): the request goes out, once
send(reqs, r) == Append(reqs, r)

\* what a verb returns once send().await is over:
\* .context("<METHOD> request failed")? and then handle_response(response)
verb_result(method, reply) ==
    IF reply.kind = "failure"
    THEN Err(<<<<method, " request failed">>, <<reply.cause>>>>)
    ELSE handle_response(reply)

-----------------------------------------------------------------------------
(* The command line and the handlers (src/src/main.rs) *)

\* The command line is a record: help (--help given), json (--json given),
\* command (the words of the subcommand) and opts, which gives for every option
\* name the values it was given with, in order (none: the option is absent).
\* The four settings flags are not part of it: they are `cli`, already parsed.

Commands ==
    {<<"projects", "list">>, <<"states", "list">>, <<"labels", "list">>,
     <<"members", "list">>, <<"issues", "list">>, <<"issues", "get">>,
     <<"issues", "create">>}

OptionNames ==
    {"project", "id", "title", "description", "state", "priority", "assignee",
     "label", "per_page", "cursor"}

\* the options of a subcommand that are plain String fields: required
RequiredOptions(cmd) ==
    CASE cmd = <<"projects", "list">> -> {}
      [] cmd = <<"issues", "get">> -> {"project", "id"}
      [] cmd = <<"issues", "create">> -> {"project", "title"}
      [] OTHER -> {"project"}

\* the options of a subcommand that are Option, Vec or have a default
OptionalOptions(cmd) ==
    CASE cmd = <<"issues", "list">> -> {"state", "assignee", "per_page", "cursor"}
      [] cmd = <<"issues", "create">> ->
           {"description", "state", "priority", "assignee", "label"}
      [] OTHER -> {}

\* the options that are Vec<String>: they can be repeated
RepeatableOptions(cmd) ==
    IF cmd = <<"issues", "create">> THEN {"assignee", "label"} ELSE {}

\* the values clap's parser would accept for --priority, if it were given the
\* list of the option's doc comment; the field is a plain Option<String>, so
\* clap accepts every string
PriorityNames == {"none", "urgent", "high", "medium", "low"}

\* what Cli::parse makes of the command line
Help == [tag |-> "Help"]
UsageError(msg) == [tag |-> "Usage", chain |-> <<msg>>]

\* A faulty variant: a usage error ends the process with code 1.
ClapExitCodeOne(r) == IF r.tag = "Help" THEN 0 ELSE 1

\* clap's Error::exit: code 0 after --help, code 2 after a usage error
ClapExitCode(r) == IF r.tag = "Help" THEN 0 ELSE 2

\* Cli::parse(): --help prints the help; a missing or unknown subcommand, an
\* option the subcommand does not have, a required option that is missing, an
\* option given twice that is no Vec, and a --per-page that is no u32 are
\* usage errors; everything else is parsed.  --priority takes any string.
Cli_parse(a) ==
    LET given == {o \in OptionNames : a.opts[o] # <<>>}
        allowed == RequiredOptions(a.command) \cup OptionalOptions(a.command)
    IN IF a.help THEN Help
       ELSE IF a.command \notin Commands
       THEN UsageError(<<"Usage", ": plane [OPTIONS] <COMMAND>">>)
       ELSE IF ~(given \subseteq allowed)
       THEN UsageError(<<"unexpected argument", " found">>)
       ELSE IF \E o \in given \ RepeatableOptions(a.command) : Len(a.opts[o]) > 1
       THEN UsageError(<<"the argument cannot be used multiple times">>)
       ELSE IF ~(RequiredOptions(a.command) \subseteq given)
       THEN UsageError(<<"the following required arguments were not provided">>)
       ELSE IF "per_page" \in given /\ ~IsOk(ParseU64(a.opts["per_page"][1]))
       THEN UsageError(<<"invalid value", " for '--per-page <PER_PAGE>'">>)
       ELSE Ok([json |-> a.json, command |-> a.command,
                opts |-> [o \in OptionNames |->
                            IF o = "per_page"
                            THEN IF o \in given
                                 THEN <<ParseU64(a.opts[o][1]).val>>
                                 ELSE <<50>>
                            ELSE a.opts[o]]])

\* what `main` prints when it returns Err(chain): "Error: " and the messages
\* of the chain
ReportError(chain) == <<<<"Error: ">> \o Head(chain)>> \o Tail(chain)

\* the exit code of the process when `main` returns r
Termination(r) == IF IsOk(r) THEN 0 ELSE 1

\* the exit code of a process that panics
PanicExitCode == 101

\* a string of the Settings as a text: the strings of this model have no slash
\* at either end
Text(s) == <<s>>

\* A faulty variant: without a workspace the run goes on, with an empty one.
RequireWorkspaceOrEmpty(settings) ==
    Ok(IF IsSome(settings.workspace) THEN Unwrap(settings.workspace) ELSE "")

\* settings.workspace.as_deref().context("workspace is required ...")
\* (the em dash is written "--")
RequireWorkspace(settings) ==
    IF IsSome(settings.workspace) THEN Ok(Unwrap(settings.workspace))
    ELSE Err(<<<<"workspace is required",
                 " -- set it via --workspace, PLANE_CLI_WORKSPACE, or config file">>>>)

\* A faulty variant: an option that is not given is sent as null, an empty
\* list of assignees or labels as an empty array.
issues_create_body_with_nulls(c) ==
    LET opt(o) == IF c.opts[o] # <<>> THEN JStr(c.opts[o][1]) ELSE JNull
        vec(o) == JArr([i \in DOMAIN c.opts[o] |-> JStr(c.opts[o][i])])
    IN JObj([k \in {"name", "description_html", "state", "priority",
                    "assignees", "labels"} |->
               CASE k = "name" -> JStr(c.opts["title"][1])
                 [] k = "description_html" -> opt("description")
                 [] k = "state" -> opt("state")
                 [] k = "priority" -> opt("priority")
                 [] k = "assignees" -> vec("assignee")
                 [] k = "labels" -> vec("label")])

\* the body IssuesAction::Create builds
issues_create_body(c) ==
    LET vec(o) == JArr([i \in DOMAIN c.opts[o] |-> JStr(c.opts[o][i])])
        b0 == [k \in {"name"} |-> JStr(c.opts["title"][1])]
        b1 == IF c.opts["description"] # <<>>
              THEN MapInsert(b0, "description_html", JStr(c.opts["description"][1]))
              ELSE b0
        b2 == IF c.opts["state"] # <<>>
              THEN MapInsert(b1, "state", JStr(c.opts["state"][1]))
              ELSE b1
        b3 == IF c.opts["priority"] # <<>>
              THEN MapInsert(b2, "priority", JStr(c.opts["priority"][1]))
              ELSE b2
        b4 == IF c.opts["assignee"] # <<>>
              THEN MapInsert(b3, "assignees", vec("assignee"))
              ELSE b3
        b5 == IF c.opts["label"] # <<>>
              THEN MapInsert(b4, "labels", vec("label"))
              ELSE b4
    IN JObj(b5)

\* A faulty variant: an option that is not given is sent with an empty value.
issues_list_params_with_empty(c) ==
    LET p(o) == <<<<o, IF c.opts[o] # <<>> THEN c.opts[o][1] ELSE "">>>>
    IN <<<<"per_page", ToString(c.opts["per_page"][1])>>>>
       \o p("state") \o p("assignee") \o p("cursor")

\* the query parameters IssuesAction::List builds
issues_list_params(c) ==
    LET p(o) == IF c.opts[o] # <<>> THEN <<<<o, c.opts[o][1]>>>> ELSE <<>>
    IN <<<<"per_page", ToString(c.opts["per_page"][1])>>>>
       \o p("state") \o p("assignee") \o p("cursor")

\* the call of a Client verb that the handler of the command c makes
HandlerCall(c, workspace) ==
    LET project == c.opts["project"][1]
        under(rest) == <<"workspaces/", workspace, "/projects/", project>> \o rest
    IN CASE c.command = <<"projects", "list">> ->
              Call("get", <<"workspaces/", workspace, "/projects", "/">>, <<>>, None)
         [] c.command = <<"states", "list">> ->
              Call("get", under(<<"/states", "/">>), <<>>, None)
         [] c.command = <<"labels", "list">> ->
              Call("get", under(<<"/labels", "/">>), <<>>, None)
         [] c.command = <<"members", "list">> ->
              Call("get", under(<<"/members", "/">>), <<>>, None)
         [] c.command = <<"issues", "list">> ->
              Call("get_with_params", under(<<"/issues", "/">>),
                   issues_list_params(c), None)
         [] c.command = <<"issues", "get">> ->
              Call("get", under(<<"/issues/", c.opts["id"][1], "/">>), <<>>, None)
         [] c.command = <<"issues", "create">> ->
              Call("post", under(<<"/issues", "/">>), <<>>,
                   Some(issues_create_body(c)))

\* data[key]: the value under the key, null when there is none or `data` is no
\* object
Index(doc, key) ==
    IF doc.t = "obj" /\ key \in DOMAIN doc.v THEN doc.v[key] ELSE JNull

\* A faulty variant: a value without an array under results gives no rows
\* instead of an error.
results_rows_or_empty(doc) ==
    IF Index(doc, "results").t = "arr" THEN Ok(Index(doc, "results").v)
    ELSE Ok(<<>>)

\* data["results"].as_array()
\*     .context("unexpected response format: missing 'results' array")
results_rows(doc) ==
    IF Index(doc, "results").t = "arr" THEN Ok(Index(doc, "results").v)
    ELSE Err(<<<<"unexpected response format", ": missing 'results' array">>>>)

\* A faulty variant: members list reads the array under results only.
members_rows_results_only(doc) ==
    IF Index(doc, "results").t = "arr" THEN Ok(Index(doc, "results").v)
    ELSE Err(<<<<"unexpected response format">>>>)

\* the rows of members list: match data.as_array() { Some(arr) => arr,
\* None => data["results"].as_array().context("unexpected response format")? }
members_rows(doc) ==
    IF doc.t = "arr" THEN Ok(doc.v)
    ELSE IF Index(doc, "results").t = "arr" THEN Ok(Index(doc, "results").v)
    ELSE Err(<<<<"unexpected response format">>>>)

\* the line a list handler prints when there are no rows
NoneFound(cmd) ==
    CASE cmd[1] = "projects" -> "No projects found."
      [] cmd[1] = "states" -> "No states found."
      [] cmd[1] = "labels" -> "No labels found."
      [] cmd[1] = "members" -> "No members found."
      [] cmd[1] = "issues" -> "No issues found."

\* what a handler does with the value the verb returned: the writes to
\* standard output and what the handler returns.  A table is written as its
\* rows, the text of issues get and issues create as the value it is made of.
Output(c, doc) ==
    LET table(rows) ==
            IF IsErr(rows) THEN [out |-> <<>>, ret |-> rows]
            ELSE IF rows.val = <<>>
            THEN [out |-> <<[fmt |-> "text", text |-> NoneFound(c.command)]>>,
                  ret |-> Ok(<<>>)]
            ELSE [out |-> <<[fmt |-> "table", rows |-> rows.val]>>, ret |-> Ok(<<>>)]
    IN IF c.json
       THEN [out |-> <<[fmt |-> "json", doc |-> doc]>>, ret |-> Ok(<<>>)]
       ELSE CASE c.command = <<"members", "list">> -> table(members_rows(doc))
              [] c.command \in {<<"issues", "get">>, <<"issues", "create">>} ->
                   [out |-> <<[fmt |-> "fields", doc |-> doc]>>, ret |-> Ok(<<>>)]
              [] OTHER -> table(results_rows(doc))

-----------------------------------------------------------------------------
(* The inputs of one run *)

\* The most keys, variables and flags that the two files, the environment and
\* the command line set between them in one run.
MaxOverrides == 2

KSubsets(S, k) == {T \in SUBSET S : Cardinality(T) = k}

\* what a config file may hold under a key, and as a whole
FileKeys == Fields \cup {"extra"}
FileVals ==
    {JNull, JStr("file-value"), JNum(60), JNum(90), JNum(-1),
     JObj([n |-> JNum(1)]), JObj([m |-> JStr("x")])}
NonObjectDocs == {JNull, JNum(5), JStr("text"), JArr(<<JNum(1)>>)}

ObjectDocs(k) ==
    UNION {{JObj(m) : m \in [T -> FileVals]} : T \in KSubsets(FileKeys, k)}

\* the files that cost w of the budget: a missing file costs nothing, an
\* object one per key, any other file one
FilesOfWeight(w) ==
    IF w = 0 THEN {Missing}
    ELSE (IF w = 1
          THEN {Unreadable, Garbage, JsonText(JObj(<<>>))}
               \cup {JsonText(d) : d \in NonObjectDocs}
          ELSE {})
         \cup {JsonText(d) : d \in ObjectDocs(w)}

EnvStringValue ==
    [n \in EnvNames \ {EnvTimeout} |->
        CASE n = EnvHome -> "/home/user"
          [] n = EnvApiKey -> "env-key"
          [] n = EnvBaseUrl -> "https://env.api"
          [] n = EnvWorkspace -> "env-ws"]
TimeoutTexts ==
    {<<"2", "0", "0">>, <<"+", "7">>, <<"a", "b", "c">>, <<"-", "1">>, <<>>}

\* the environments with exactly w variables set
EnvsOfWeight(w) ==
    {[n \in EnvNames |->
        IF n = EnvTimeout THEN t
        ELSE IF n \in T THEN Some(EnvStringValue[n]) ELSE None] :
       <<T, t>> \in {x \in (SUBSET (EnvNames \ {EnvTimeout}))
                            \X ({None} \cup {Some(txt) : txt \in TimeoutTexts}) :
                       Cardinality(x[1]) + Len(x[2]) = w}}

CliValue ==
    [api_key |-> "cli-key", base_url |-> "https://cli.api",
     workspace |-> "cli-ws", timeout |-> 999]

\* the command lines with exactly w of the four flags given
ClisOfWeight(w) ==
    {[k \in Fields |-> IF k \in T THEN Some(CliValue[k]) ELSE None] :
       T \in KSubsets(Fields, w)}

-----------------------------------------------------------------------------
(* Settings::load, step by step *)

Init ==
    /\ \/ \E a \in 0..MaxOverrides :
          \E b \in 0..(MaxOverrides - a) :
          \E c \in 0..(MaxOverrides - a - b) :
          \E d \in 0..(MaxOverrides - a - b - c) :
             /\ fs \in {[n \in FileNames |-> IF n = SettingsJson THEN f1 ELSE f2] :
                          f1 \in FilesOfWeight(a), f2 \in FilesOfWeight(b)}
             /\ env \in EnvsOfWeight(c)
             /\ cli \in ClisOfWeight(d)
       \* or all four flags are given, over files of one entry at most
       \/ /\ fs \in [FileNames -> FilesOfWeight(0) \cup FilesOfWeight(1)]
          /\ env \in EnvsOfWeight(0)
          /\ cli \in ClisOfWeight(Cardinality(Fields))
    /\ pc = "start"
    /\ value = JNull
    /\ base_arg = JNull
    /\ overlay_arg = JNull
    /\ result = Pending
    /\ NoRun

\* Layer 1: the defaults, serialized
LoadDefaults ==
    /\ pc = "start"
    /\ value' = ToValue(DefaultSettings)
    /\ pc' = "settings.json"
    /\ UNCHANGED runVars
    /\ UNCHANGED <<fs, env, cli, base_arg, overlay_arg, result>>

\* merge_file(&mut value, &config_dir.join(name))?
MergeFileStep(name, next) ==
    /\ LET r == merge_file(value, ConfigPath(env, name), fs[name]) IN
       /\ value' = r.base
       /\ IF IsErr(r.ret)
          THEN result' = r.ret /\ pc' = "returned"
          ELSE result' = result /\ pc' = next
    /\ UNCHANGED runVars
    /\ UNCHANGED <<fs, env, cli, base_arg, overlay_arg>>

\* Layer 2: config/settings.json
MergeSettingsJson ==
    /\ pc = SettingsJson
    /\ MergeFileStep(SettingsJson, SettingsLocalJson)

\* Layer 3: config/settings.local.json
MergeSettingsLocalJson ==
    /\ pc = SettingsLocalJson
    /\ MergeFileStep(SettingsLocalJson, "env")

\* Layer 4: environment variables
MergeEnv ==
    /\ pc = "env"
    /\ LET r == merge_env(value, env) IN
       IF IsOk(r)
       THEN value' = r.val /\ result' = result /\ pc' = "cli"
       ELSE value' = value /\ result' = r /\ pc' = "returned"
    /\ UNCHANGED runVars
    /\ UNCHANGED <<fs, env, cli, base_arg, overlay_arg>>

\* Layer 5: CLI arguments
MergeCli ==
    /\ pc = "cli"
    /\ LET r == merge_cli(value, cli) IN
       IF IsOk(r)
       THEN value' = r.val /\ result' = result /\ pc' = "decode"
       ELSE value' = value /\ result' = r /\ pc' = "returned"
    /\ UNCHANGED runVars
    /\ UNCHANGED <<fs, env, cli, base_arg, overlay_arg>>

\* serde_json::from_value(value).context("failed to parse merged settings")
Decode ==
    /\ pc = "decode"
    /\ result' = WithContext(from_value(value), <<"failed to parse merged settings">>)
    /\ pc' = "returned"
    /\ UNCHANGED runVars
    /\ UNCHANGED <<fs, env, cli, base_arg, overlay_arg, value>>

Next ==
    \/ LoadDefaults
    \/ MergeSettingsJson
    \/ MergeSettingsLocalJson
    \/ MergeEnv
    \/ MergeCli
    \/ Decode

Spec == Init /\ [][Next]_vars

-----------------------------------------------------------------------------
(* deep_merge called directly, as the unit tests call it *)

\* the most nodes (objects and leaves) of the base and of the overlay handed to
\* deep_merge
MaxBaseNodes == 4
MaxOverlayNodes == 3

MergeKeys == {"a", "b"}
Leaves == {JNull, JNum(1), JArr(<<JNum(1)>>), JArr(<<JNum(2)>>)}

\* the documents over MergeKeys and Leaves with exactly n nodes
RECURSIVE DocsOfSize(_)
DocsOfSize(n) ==
    IF n = 1 THEN Leaves \cup {JObj(<<>>)}
    ELSE {JObj([k \in {key} |-> x]) : key \in MergeKeys, x \in DocsOfSize(n - 1)}
         \cup UNION {{JObj([k \in MergeKeys |-> IF k = "a" THEN x ELSE y]) :
                        x \in DocsOfSize(i), y \in DocsOfSize(n - 1 - i)} :
                     i \in 1..(n - 2)}

MergeDocs(max) == UNION {DocsOfSize(n) : n \in 1..max}

NoEnv == [n \in EnvNames |-> None]
NoCli == [k \in Fields |-> None]

InitMerge ==
    /\ value \in MergeDocs(MaxBaseNodes)
    /\ base_arg = value
    /\ overlay_arg \in MergeDocs(MaxOverlayNodes)
    /\ pc = "deep_merge"
    /\ fs = [n \in FileNames |-> Missing]
    /\ env = NoEnv
    /\ cli = NoCli
    /\ result = Pending
    /\ NoRun

\* deep_merge(&mut value, &overlay)
DeepMergeCall ==
    /\ pc = "deep_merge"
    /\ value' = deep_merge(value, overlay_arg)
    /\ pc' = "merged"
    /\ UNCHANGED runVars
    /\ UNCHANGED <<fs, env, cli, base_arg, overlay_arg, result>>

NextMerge == DeepMergeCall

SpecMerge == InitMerge /\ [][NextMerge]_vars

-----------------------------------------------------------------------------
(* The verbs of Client, called directly, as the unit tests call them *)

\* the most slashes at the end of a base URL and at the start of a path
MaxSlashes == 2

Slashes(k) == [i \in 1..k |-> "/"]

\* base URLs as the tests give them (the address of a local server), and the
\* paths the handlers use
BaseUrlTexts == {<<"http://127.0.0.1:8080">> \o Slashes(k) : k \in 0..MaxSlashes}
PathTexts == {Slashes(k) \o <<"workspaces/ws/projects", "/">> : k \in 0..MaxSlashes}

\* the Settings the tests build a Client from
ClientSettings ==
    {[api_key |-> Some("test-key"), base_url |-> b, workspace |-> Some("test-ws"),
      timeout |-> 5] : b \in BaseUrlTexts}

Calls ==
    {Call(v, p, <<>>, None) : v \in {"get", "delete"}, p \in PathTexts}
    \cup {Call("get_with_params", p, q, None) :
            p \in PathTexts, q \in {<<>>, <<<<"per_page", "50">>>>}}
    \cup {Call(v, p, <<>>, Some(JObj([name |-> JStr("Title")]))) :
            v \in {"post", "patch"}, p \in PathTexts}

\* the statuses a response may carry: 2xx, and the others on both sides of
\* every case of handle_response
SuccessStatuses == {200, 201, 204, 299}
OtherStatuses == {100, 199, 300, 400, 401, 403, 404, 429, 499, 500, 503, 599, 600, 999}

\* bodies: valid JSON of several shapes, an empty body, a text that is not
\* JSON, a body that breaks off
Item == JObj([id |-> JStr("id-1"), name |-> JStr("First")])
JsonBodies ==
    {Body("{\"results\":[]}", Some(JObj([results |-> JArr(<<>>)]))),
     Body("{\"results\":[{\"id\":\"id-1\",\"name\":\"First\"}]}",
          Some(JObj([results |-> JArr(<<Item>>)]))),
     Body("[{\"id\":\"id-1\",\"name\":\"First\"}]", Some(JArr(<<Item>>))),
     Body("{\"id\":\"id-1\",\"name\":\"First\"}", Some(Item))}
EmptyBody == Body("", None)
TextBody == Body("not found", None)
Bodies == JsonBodies \cup {EmptyBody, TextBody, BrokenBody}
ErrorBodies == {EmptyBody, TextBody, BrokenBody, Body("{\"id\":\"id-1\",\"name\":\"First\"}", Some(Item))}

Replies ==
    {Failure(c) : c \in {"connection refused", "operation timed out"}}
    \cup {Reply(s, b) : s \in SuccessStatuses, b \in Bodies}
    \cup {Reply(s, b) : s \in OtherStatuses, b \in ErrorBodies}

TheCall == Unwrap(call)
TheClient == Unwrap(client)

\* (`result` holds the Settings the Client was built from.)
InitClient ==
    /\ \E s \in ClientSettings, j \in BOOLEAN :
          /\ result = Ok(s)
          /\ client = Some(Client_new(s, j).val)
    /\ call \in {Some(c) : c \in Calls}
    /\ pc = "call"
    /\ fs = [n \in FileNames |-> Missing]
    /\ env = NoEnv
    /\ cli = NoCli
    /\ value = JNull
    /\ base_arg = JNull
    /\ overlay_arg = JNull
    /\ argv = None
    /\ requests = <<>>
    /\ response = None
    /\ data = Pending
    /\ stdout = <<>>
    /\ stderr = <<>>
    /\ exit_code = None

\* Client::get(path): self.get_with_params(path, &[])
Get ==
    /\ pc = "call"
    /\ TheCall.verb = "get"
    /\ call' = Some(Call("get_with_params", TheCall.path, <<>>, None))
    /\ UNCHANGED <<pc, argv, client, requests, response, data, stdout, stderr, exit_code>>
    /\ UNCHANGED loadVars

\* Client::get_with_params(path, params), up to send().await
GetWithParams ==
    /\ pc = "call"
    /\ TheCall.verb = "get_with_params"
    /\ requests' = send(requests,
                        Request(TheClient, "GET", TheCall.path, TheCall.query, None))
    /\ pc' = "sent"
    /\ UNCHANGED <<argv, client, call, response, data, stdout, stderr, exit_code>>
    /\ UNCHANGED loadVars

\* Client::post(path, body), up to send().await
Post ==
    /\ pc = "call"
    /\ TheCall.verb = "post"
    /\ requests' = send(requests,
                        Request(TheClient, "POST", TheCall.path, <<>>, TheCall.body))
    /\ pc' = "sent"
    /\ UNCHANGED <<argv, client, call, response, data, stdout, stderr, exit_code>>
    /\ UNCHANGED loadVars

\* Client::patch(path, body), up to send().await
Patch ==
    /\ pc = "call"
    /\ TheCall.verb = "patch"
    /\ requests' = send(requests,
                        Request(TheClient, "PATCH", TheCall.path, <<>>, TheCall.body))
    /\ pc' = "sent"
    /\ UNCHANGED <<argv, client, call, response, data, stdout, stderr, exit_code>>
    /\ UNCHANGED loadVars

\* Client::delete(path), up to send().await
Delete ==
    /\ pc = "call"
    /\ TheCall.verb = "delete"
    /\ requests' = send(requests,
                        Request(TheClient, "DELETE", TheCall.path, <<>>, None))
    /\ pc' = "sent"
    /\ UNCHANGED <<argv, client, call, response, data, stdout, stderr, exit_code>>
    /\ UNCHANGED loadVars

\* The rest of each verb: send().await is over, with a failure or a response,
\* and the verb returns what verb_result gives.
AwaitSend ==
    /\ pc = "sent"
    /\ \E r \in Replies :
          /\ response' = Some(r)
          /\ data' = verb_result(MethodOf(TheCall.verb), r)
    /\ pc' = "verb returned"
    /\ UNCHANGED <<argv, client, call, requests, stdout, stderr, exit_code>>
    /\ UNCHANGED loadVars

NextClient ==
    \/ Get
    \/ GetWithParams
    \/ Post
    \/ Patch
    \/ Delete
    \/ AwaitSend

SpecClient == InitClient /\ [][NextClient]_vars

-----------------------------------------------------------------------------
(* One run of the process: main *)

\* the most values of optional options on a command line
MaxOptions == 2

\* the values an option is given with on the command lines of this model; an
\* option that can be repeated is given once or twice, --per-page is a text
GivenValues(o) ==
    CASE o = "project" -> {<<"p1">>}
      [] o = "id" -> {<<"i1">>}
      [] o = "title" -> {<<"Title">>}
      [] o = "description" -> {<<"<p>text</p>">>}
      [] o = "state" -> {<<"st-1">>}
      [] o = "priority" -> {<<"urgent">>, <<"none">>, <<"invalid">>}
      [] o = "assignee" -> {<<"m1">>, <<"m1", "m2">>}
      [] o = "label" -> {<<"l1">>, <<"l1", "l2">>}
      [] o = "per_page" -> {<<<<"2", "5">>>>, <<<<"x">>>>}
      [] o = "cursor" -> {<<"20:1:0">>}

NoOptions == [o \in OptionNames |-> <<>>]

\* the ways the options of a subcommand can be given: the required ones
\* given, the optional ones given or not
Choices(cmd, o) ==
    IF o \in RequiredOptions(cmd) THEN GivenValues(o)
    ELSE IF o \in OptionalOptions(cmd) THEN {<<>>} \cup GivenValues(o)
    ELSE {<<>>}

OptionalWeight(cmd, opts) ==
    LET W[S \in SUBSET OptionalOptions(cmd)] ==
            IF S = {} THEN 0
            ELSE LET o == CHOOSE x \in S : TRUE IN Len(opts[o]) + W[S \ {o}]
    IN W[OptionalOptions(cmd)]

OptionsOf(cmd) ==
    {opts \in
       {[project |-> pr, id |-> i, title |-> t, description |-> d, state |-> s,
         priority |-> p, assignee |-> a, label |-> l, per_page |-> n,
         cursor |-> c] :
          pr \in Choices(cmd, "project"), i \in Choices(cmd, "id"),
          t \in Choices(cmd, "title"), d \in Choices(cmd, "description"),
          s \in Choices(cmd, "state"), p \in Choices(cmd, "priority"),
          a \in Choices(cmd, "assignee"), l \in Choices(cmd, "label"),
          n \in Choices(cmd, "per_page"), c \in Choices(cmd, "cursor")} :
       OptionalWeight(cmd, opts) <= MaxOptions}

CommandLine(help, json, cmd, opts) ==
    [help |-> help, json |-> json, command |-> cmd, opts |-> opts]

\* command lines clap parses, --help, and command lines clap rejects: no
\* subcommand, an unknown one, no option at all, an option of another
\* subcommand, --id twice
CommandLines ==
    {CommandLine(FALSE, j, cmd, opts) :
       j \in BOOLEAN, <<cmd, opts>> \in UNION {{c} \X OptionsOf(c) : c \in Commands}}
    \cup {CommandLine(TRUE, FALSE, <<>>, NoOptions),
          CommandLine(FALSE, FALSE, <<>>, NoOptions),
          CommandLine(FALSE, FALSE, <<"issues", "delete">>, NoOptions),
          CommandLine(FALSE, FALSE, <<"projects", "list">>,
                      [NoOptions EXCEPT !["project"] = <<"p1">>]),
          CommandLine(FALSE, FALSE, <<"issues", "get">>,
                      [NoOptions EXCEPT !["project"] = <<"p1">>,
                                        !["id"] = <<"i1", "i2">>])}
    \cup {CommandLine(FALSE, FALSE, cmd, NoOptions) :
            cmd \in Commands \ {<<"projects", "list">>}}

\* the sources of the settings in a run: settings.json missing, not JSON, the
\* JSON text null, or an object with api_key and workspace; the environment
\* with no variable, PLANE_CLI_API_KEY or PLANE_CLI_WORKSPACE; no settings
\* flag, or --api-key and --workspace, the key legal in a header or not
MainFiles ==
    {[n \in FileNames |-> IF n = SettingsJson THEN f ELSE Missing] :
       f \in {Missing, Garbage, JsonText(JNull),
              JsonText(JObj([api_key |-> JStr("file-value"),
                             workspace |-> JStr("file-value")]))}}
MainEnvs ==
    {e \in EnvsOfWeight(0) \cup EnvsOfWeight(1) :
       \A n \in {EnvHome, EnvBaseUrl, EnvTimeout} : e[n] = None}
MainClis ==
    {NoCli}
    \cup {[NoCli EXCEPT !["api_key"] = Some(k), !["workspace"] = Some("cli-ws")] :
            k \in {"cli-key"} \cup ControlCharStrings}

InitMain ==
    /\ fs \in MainFiles
    /\ env \in MainEnvs
    /\ cli \in MainClis
    /\ argv \in {Some(a) : a \in CommandLines}
    /\ pc = "main"
    /\ value = JNull
    /\ base_arg = JNull
    /\ overlay_arg = JNull
    /\ result = Pending
    /\ client = None
    /\ call = None
    /\ requests = <<>>
    /\ response = None
    /\ data = Pending
    /\ stdout = <<>>
    /\ stderr = <<>>
    /\ exit_code = None

\* the parsed command line, once Cli::parse has returned it
TheCommand == Cli_parse(Unwrap(argv)).val

\* main returns Err(chain): the error is printed and the process exits
Fail(chain) ==
    /\ stderr' = stderr \o ReportError(chain)
    /\ exit_code' = Some(Termination(Err(chain)))
    /\ pc' = "exited"

\* let cli = Cli::parse();
ParseArgs ==
    /\ pc = "main"
    /\ LET r == Cli_parse(Unwrap(argv)) IN
       CASE r.tag = "Help" ->
              /\ stdout' = Append(stdout, [fmt |-> "help"])
              /\ exit_code' = Some(ClapExitCode(r))
              /\ pc' = "exited"
              /\ UNCHANGED stderr
         [] r.tag = "Usage" ->
              /\ stderr' = stderr \o <<<<"error: ">> \o Head(r.chain)>>
              /\ exit_code' = Some(ClapExitCode(r))
              /\ pc' = "exited"
              /\ UNCHANGED stdout
         [] OTHER ->
              /\ pc' = "load"
              /\ UNCHANGED <<stdout, stderr, exit_code>>
    /\ UNCHANGED <<argv, client, call, requests, response, data>>
    /\ UNCHANGED loadVars

\* let settings = Settings::load(CliOverrides { .. })?;
LoadSettings ==
    /\ pc = "load"
    /\ result' = load(fs, env, cli)
    /\ CASE IsOk(result') ->
              /\ pc' = "workspace"
              /\ UNCHANGED <<stderr, exit_code>>
         [] IsErr(result') -> Fail(result'.chain)
         [] OTHER ->
              /\ stderr' = Append(stderr, <<"thread 'main' panicked", ": ", result'.msg>>)
              /\ exit_code' = Some(PanicExitCode)
              /\ pc' = "exited"
    /\ UNCHANGED <<argv, client, call, requests, response, data, stdout>>
    /\ UNCHANGED <<fs, env, cli, value, base_arg, overlay_arg>>

\* let workspace = settings.workspace.as_deref().context("workspace is required ...")?;
CheckWorkspace ==
    /\ pc = "workspace"
    /\ LET w == RequireWorkspace(result.val) IN
       IF IsOk(w)
       THEN pc' = "client" /\ UNCHANGED <<stderr, exit_code>>
       ELSE Fail(w.chain)
    /\ UNCHANGED <<argv, client, call, requests, response, data, stdout>>
    /\ UNCHANGED loadVars

\* let client = Client::new(&settings, json_mode)?;
NewClient ==
    /\ pc = "client"
    /\ LET c == Client_new([result.val EXCEPT !.base_url = Text(@)], TheCommand.json) IN
       IF IsOk(c)
       THEN client' = Some(c.val) /\ pc' = "handler" /\ UNCHANGED <<stderr, exit_code>>
       ELSE client' = client /\ Fail(c.chain)
    /\ UNCHANGED <<argv, call, requests, response, data, stdout>>
    /\ UNCHANGED loadVars

\* a handler, up to its call of a Client verb
Handle(cmd) ==
    /\ pc = "handler"
    /\ TheCommand.command = cmd
    /\ call' = Some(HandlerCall(TheCommand, RequireWorkspace(result.val).val))
    /\ pc' = "call"
    /\ UNCHANGED <<argv, client, requests, response, data, stdout, stderr, exit_code>>
    /\ UNCHANGED loadVars

ProjectsList == pc = "handler" /\ Handle(<<"projects", "list">>)
StatesList == pc = "handler" /\ Handle(<<"states", "list">>)
LabelsList == pc = "handler" /\ Handle(<<"labels", "list">>)
MembersList == pc = "handler" /\ Handle(<<"members", "list">>)
IssuesList == pc = "handler" /\ Handle(<<"issues", "list">>)
IssuesGet == pc = "handler" /\ Handle(<<"issues", "get">>)
IssuesCreate == pc = "handler" /\ Handle(<<"issues", "create">>)

\* the rest of a handler and of main: `.await?` on the verb, the output, and
\* the return from main
HandlerOutput ==
    /\ pc = "verb returned"
    /\ IF IsErr(data)
       THEN Fail(data.chain) /\ UNCHANGED stdout
       ELSE LET o == Output(TheCommand, data.val) IN
            /\ stdout' = stdout \o o.out
            /\ IF IsErr(o.ret)
               THEN Fail(o.ret.chain)
               ELSE /\ exit_code' = Some(Termination(o.ret))
                    /\ pc' = "exited"
                    /\ UNCHANGED stderr
    /\ UNCHANGED <<argv, client, call, requests, response, data>>
    /\ UNCHANGED loadVars

NextMain ==
    \/ ParseArgs
    \/ LoadSettings
    \/ CheckWorkspace
    \/ NewClient
    \/ ProjectsList
    \/ StatesList
    \/ LabelsList
    \/ MembersList
    \/ IssuesList
    \/ IssuesGet
    \/ IssuesCreate
    \/ Get
    \/ GetWithParams
    \/ Post
    \/ AwaitSend
    \/ HandlerOutput

SpecMain == InitMain /\ [][NextMain]_vars

-----------------------------------------------------------------------------
(* Claims about Settings::load *)

Returned == pc = "returned"

\* the document a config file holds, when it holds one
FileDoc(name) == Unwrap(fs[name].json)
FileHasDoc(name) == fs[name].st = "text" /\ IsSome(fs[name].json)

\* a config file sets field f when it holds an object with the key f
FileSets(name, f) ==
    FileHasDoc(name) /\ FileDoc(name).t = "obj" /\ f \in DOMAIN FileDoc(name).v
FileGives(name, f) == FileDoc(name).v[f]

EnvVarOf(f) ==
    CASE f = "api_key" -> EnvApiKey
      [] f = "base_url" -> EnvBaseUrl
      [] f = "workspace" -> EnvWorkspace
      [] f = "timeout" -> EnvTimeout

\* a text that denotes an unsigned integer: decimal digits, after an optional +
IsUnsignedText(text) ==
    LET ds == IF text # <<>> /\ text[1] = "+" THEN Tail(text) ELSE text IN
    /\ ds # <<>>
    /\ \A i \in DOMAIN ds : ds[i] \in {"0", "1", "2", "3", "4", "5", "6", "7", "8", "9"}
TextNumber(text) == DecimalValue(IF text[1] = "+" THEN Tail(text) ELSE text)

\* the environment sets field f when the variable of f is set and, for the
\* timeout, denotes an unsigned integer
EnvSets(f) ==
    /\ IsSome(env[EnvVarOf(f)])
    /\ f = "timeout" => IsUnsignedText(Unwrap(env[EnvTimeout]))
EnvGives(f) ==
    IF f = "timeout" THEN JNum(TextNumber(Unwrap(env[EnvTimeout])))
    ELSE JStr(Unwrap(env[EnvVarOf(f)]))

CliSets(f) == IsSome(cli[f])
CliGives(f) == IF f = "timeout" THEN JNum(Unwrap(cli[f])) ELSE JStr(Unwrap(cli[f]))

DefaultGives(f) ==
    CASE f = "api_key" -> JNull
      [] f = "base_url" -> JStr("https://api.plane.so")
      [] f = "workspace" -> JNull
      [] f = "timeout" -> JNum(30)

\* the value of field f given by the highest-priority source that sets it
HighestGives(f) ==
    IF CliSets(f) THEN CliGives(f)
    ELSE IF EnvSets(f) THEN EnvGives(f)
    ELSE IF FileSets(SettingsLocalJson, f) THEN FileGives(SettingsLocalJson, f)
    ELSE IF FileSets(SettingsJson, f) THEN FileGives(SettingsJson, f)
    ELSE DefaultGives(f)

\* a field of a Settings record as the JSON value it stands for
FieldValue(s, f) ==
    CASE f = "timeout" -> JNum(s[f])
      [] f = "base_url" -> JStr(s[f])
      [] OTHER -> IF s[f] = <<>> THEN JNull ELSE JStr(s[f][1])

\* C1: whenever Settings::load returns a Settings, each of its four fields has
\* the value given by the highest-priority source that sets the field, in the
\* order defaults < settings.json < settings.local.json < environment < CLI
\* (a timeout variable that is no unsigned integer sets nothing).
C1_HighestPriorityWins ==
    (Returned /\ IsOk(result)) =>
        \A f \in Fields : FieldValue(result.val, f) = HighestGives(f)

\* C1 witness: a Settings was returned whose timeout both files and the CLI
\* set, and which holds the CLI's value.
C1_Witness ==
    /\ Returned /\ IsOk(result)
    /\ FileSets(SettingsJson, "timeout")
    /\ CliSets("timeout")
    /\ FileGives(SettingsJson, "timeout") # CliGives("timeout")
    /\ result.val["timeout"] = 999

\* C2: Settings::load ends by returning Ok or Err, whatever valid JSON the
\* config files hold; it never ends in a panic.
C2_LoadReturnsOkOrErr ==
    Returned => result.tag \in {"Ok", "Err"}

-----------------------------------------------------------------------------
(* Claims about deep_merge *)

Merged == pc = "merged"

\* the key paths at which document d has a value
RECURSIVE PathsOf(_)
PathsOf(d) ==
    {<<>>} \cup
    (IF d.t = "obj"
     THEN UNION {{<<k>> \o q : q \in PathsOf(d.v[k])} : k \in DOMAIN d.v}
     ELSE {})

\* document d has a value at key path p, and that value
RECURSIVE Has(_, _)
Has(d, p) ==
    \/ p = <<>>
    \/ d.t = "obj" /\ Head(p) \in DOMAIN d.v /\ Has(d.v[Head(p)], Tail(p))
RECURSIVE At(_, _)
At(d, p) == IF p = <<>> THEN d ELSE At(d.v[Head(p)], Tail(p))

\* both documents hold an object at key path p
BothObjects(b, o, p) ==
    Has(b, p) /\ Has(o, p) /\ At(b, p).t = "obj" /\ At(o, p).t = "obj"

\* C3: where the base and the overlay both hold an object, the result holds an
\* object with the keys of both; a key of the base that the overlay lacks keeps
\* its base value, a key only the overlay has is added with the overlay's
\* value, and a key of both holds the merge of the two values (the same rule
\* one level down, or the overlay's value by C4).
C3_ObjectsMergeKeyByKey ==
    Merged =>
        \A p \in PathsOf(overlay_arg) :
            BothObjects(base_arg, overlay_arg, p) =>
                /\ Has(value, p)
                /\ At(value, p).t = "obj"
                /\ DOMAIN At(value, p).v =
                       DOMAIN At(base_arg, p).v \cup DOMAIN At(overlay_arg, p).v
                /\ \A k \in DOMAIN At(base_arg, p).v \ DOMAIN At(overlay_arg, p).v :
                       At(value, p \o <<k>>) = At(base_arg, p \o <<k>>)
                /\ \A k \in DOMAIN At(overlay_arg, p).v \ DOMAIN At(base_arg, p).v :
                       At(value, p \o <<k>>) = At(overlay_arg, p \o <<k>>)
                /\ \A k \in DOMAIN At(overlay_arg, p).v \cap DOMAIN At(base_arg, p).v :
                       \/ BothObjects(base_arg, overlay_arg, p \o <<k>>)
                       \/ At(value, p \o <<k>>) = At(overlay_arg, p \o <<k>>)

\* C3 witness: {a: {a: [1], b: null}} merged with {a: {b: 1}} gave
\* {a: {a: [1], b: 1}}.
C3_Witness ==
    /\ Merged
    /\ base_arg = JObj([a |-> JObj([a |-> JArr(<<JNum(1)>>), b |-> JNull])])
    /\ overlay_arg = JObj([a |-> JObj([b |-> JNum(1)])])
    /\ value = JObj([a |-> JObj([a |-> JArr(<<JNum(1)>>), b |-> JNum(1)])])

\* C4: at a key path where the base and the overlay both hold a value and one
\* of the two is no object, the result holds exactly the overlay's value.
C4_NonObjectReplaced ==
    Merged =>
        \A p \in PathsOf(overlay_arg) :
            (/\ Has(base_arg, p) /\ Has(overlay_arg, p)
             /\ (At(base_arg, p).t # "obj" \/ At(overlay_arg, p).t # "obj")) =>
                Has(value, p) /\ At(value, p) = At(overlay_arg, p)

\* C4 witness: the array [1] under a was replaced by the array [2], not
\* extended, and the object under b by null.
C4_Witness ==
    /\ Merged
    /\ base_arg = JObj([a |-> JArr(<<JNum(1)>>), b |-> JObj([a |-> JNum(1)])])
    /\ overlay_arg = JObj([a |-> JArr(<<JNum(2)>>), b |-> JNull])
    /\ value = JObj([a |-> JArr(<<JNum(2)>>), b |-> JNull])

-----------------------------------------------------------------------------
(* Claims about the layers of Settings::load *)

\* the position after the merge of a config file
AfterFile(name) == IF name = SettingsJson THEN SettingsLocalJson ELSE "env"

\* C5: when the config file about to be merged does not exist, the step leaves
\* the document as it was, returns no error, and Settings::load goes on to the
\* next layer.
C5_MissingFileSkipped ==
    [][(pc \in FileNames /\ fs[pc] = Missing) =>
          (value' = value /\ result' = Pending /\ pc' = AfterFile(pc))]_vars

\* C5 witness: settings.json set the timeout to 60, settings.local.json does
\* not exist, and the environment layer is reached with the timeout still 60.
C5_Witness ==
    /\ pc = "env"
    /\ fs[SettingsLocalJson] = Missing
    /\ FileSets(SettingsJson, "timeout")
    /\ FileGives(SettingsJson, "timeout") = JNum(60)
    /\ value.t = "obj" /\ value.v["timeout"] = JNum(60)
    /\ result = Pending

\* a config file that exists and cannot be read, or is not valid JSON
BadFile(name) == fs[name] = Unreadable \/ fs[name] = Garbage

\* the first such file in the order Settings::load reads the files
FirstBadFile ==
    IF BadFile(SettingsJson) THEN <<SettingsJson>>
    ELSE IF BadFile(SettingsLocalJson) THEN <<SettingsLocalJson>>
    ELSE <<>>

\* the pieces of `part` stand side by side in the message `msg`
Contains(msg, part) ==
    \E i \in 1..(Len(msg) - Len(part) + 1) :
        SubSeq(msg, i, i + Len(part) - 1) = part

\* C6: when a config file that Settings::load reads exists but cannot be read
\* or is not valid JSON, Settings::load returns an error whose message contains
\* the path of that file.
C6_BadFileErrorNamesPath ==
    (Returned /\ FirstBadFile # <<>>) =>
        /\ IsErr(result)
        /\ Contains(result.chain[1], ConfigPath(env, FirstBadFile[1]))

\* C6 witness: settings.json under PLANE_CLI_HOME is not valid JSON and the
\* error names it.
C6_Witness ==
    /\ Returned
    /\ fs[SettingsJson] = Garbage
    /\ IsSome(env[EnvHome])
    /\ IsErr(result)
    /\ result.chain[1] = <<"invalid JSON in ", "/home/user", "/config/", "settings.json">>

\* C7: when PLANE_CLI_TIMEOUT is set to a text that is no unsigned integer,
\* the environment layer leaves the timeout of the document as it was and
\* Settings::load goes on to the CLI layer without an error.
C7_BadTimeoutIgnored ==
    [][(/\ pc = "env"
        /\ value.t = "obj"
        /\ IsSome(env[EnvTimeout])
        /\ ~IsUnsignedText(Unwrap(env[EnvTimeout]))) =>
          (/\ pc' = "cli"
           /\ result' = Pending
           /\ value'.t = "obj"
           /\ ("timeout" \in DOMAIN value'.v) = ("timeout" \in DOMAIN value.v)
           /\ "timeout" \in DOMAIN value.v =>
                  value'.v["timeout"] = value.v["timeout"])]_vars

\* C7 witness: PLANE_CLI_TIMEOUT=abc, and the default 30 is still the timeout
\* after the environment layer.
C7_Witness ==
    /\ pc = "cli"
    /\ env[EnvTimeout] = Some(<<"a", "b", "c">>)
    /\ value.v["timeout"] = JNum(30)

\* C8: whenever Settings::load returns a Settings, the merged document holds a
\* string under base_url and a non-negative integer under timeout, and these
\* are the record's base_url and timeout; api_key and workspace are a string
\* or absent.
C8_BaseUrlAndTimeoutConcrete ==
    (Returned /\ IsOk(result)) =>
        /\ value.t = "obj"
        /\ {"base_url", "timeout"} \subseteq DOMAIN value.v
        /\ value.v["base_url"].t = "str"
        /\ result.val["base_url"] = value.v["base_url"].v
        /\ value.v["timeout"].t = "num"
        /\ value.v["timeout"].v >= 0
        /\ result.val["timeout"] = value.v["timeout"].v
        /\ \A f \in {"api_key", "workspace"} : Len(result.val[f]) <= 1

\* C8 witness: a Settings was returned with a base_url from a config file and
\* neither api_key nor workspace.
C8_Witness ==
    /\ Returned /\ IsOk(result)
    /\ FileSets(SettingsJson, "base_url")
    /\ result.val["base_url"] = "file-value"
    /\ result.val["api_key"] = None
    /\ result.val["workspace"] = None

\* C9: after the CLI layer, every field the CLI overrides give holds the CLI's
\* value in the document, whatever the lower layers set, and a Settings that
\* is returned holds it too.
C9_CliOverwrites ==
    /\ pc = "decode" =>
          \A f \in Fields :
              CliSets(f) => (f \in DOMAIN value.v /\ value.v[f] = CliGives(f))
    /\ (Returned /\ IsOk(result)) =>
          \A f \in Fields :
              CliSets(f) => FieldValue(result.val, f) = CliGives(f)

\* C9 witness: the environment gave a valid timeout, the CLI gave one too, and
\* the document holds the CLI's.
C9_Witness ==
    /\ pc = "decode"
    /\ EnvSets("timeout") /\ CliSets("timeout")
    /\ value.v["timeout"] = JNum(999)

\* a set of config files without the top-level keys that are no field
StripUnknown(f) ==
    [n \in FileNames |->
        IF f[n].st = "text" /\ IsSome(f[n].json) /\ Unwrap(f[n].json).t = "obj"
        THEN JsonText(JObj([k \in DOMAIN Unwrap(f[n].json).v \cap Fields |->
                              Unwrap(f[n].json).v[k]]))
        ELSE f[n]]

HasUnknownKey(name) ==
    FileHasDoc(name) /\ FileDoc(name).t = "obj" /\ DOMAIN FileDoc(name).v \ Fields # {}

\* C10: what Settings::load returns with the config files as they are is what
\* it returns with the same files without their keys other than api_key,
\* base_url, workspace and timeout.
C10_UnknownKeysIgnored ==
    Returned => result = load(StripUnknown(fs), env, cli)

\* C10 witness: a Settings was returned although settings.json has a key that
\* is no field, beside one that is.
C10_Witness ==
    /\ Returned /\ IsOk(result)
    /\ HasUnknownKey(SettingsJson)
    /\ FileSets(SettingsJson, "timeout")

\* a value of the wrong JSON type for the field f of Settings
WrongType(f, v) ==
    CASE f \in {"api_key", "workspace"} -> v.t \notin {"null", "str"}
      [] f = "base_url" -> v.t # "str"
      [] f = "timeout" -> ~(v.t = "num" /\ v.v >= 0)

\* the merged document holds a wrongly typed value under a known field
HoldsWrongType(d) ==
    /\ d.t = "obj"
    /\ \E f \in Fields \cap DOMAIN d.v : WrongType(f, d.v[f])

\* C11: when the document that the five layers have built holds a value of the
\* wrong JSON type under a known field, the decoding step makes Settings::load
\* return an error, headed "failed to parse merged settings", and no Settings.
C11_WrongTypeIsError ==
    [][(pc = "decode" /\ HoldsWrongType(value)) =>
          /\ pc' = "returned"
          /\ IsErr(result')
          /\ Head(result'.chain) = <<"failed to parse merged settings">>]_vars

\* C11 witness: load has returned the decoding error for a document whose
\* api_key is an object and whose other fields are well typed.
C11_Witness ==
    /\ Returned /\ IsErr(result)
    /\ Head(result.chain) = <<"failed to parse merged settings">>
    /\ value.t = "obj"
    /\ value.v["api_key"].t = "obj"
    /\ \A f \in Fields \ {"api_key"} : ~WrongType(f, value.v[f])

-----------------------------------------------------------------------------
(* Claims about the Client *)

VerbReturned == pc = "verb returned"

\* the verb has returned after a response came (not a transport failure)
Responded == VerbReturned /\ Unwrap(response).kind = "response"

\* the literal head of the outermost message of an error
Category(r) == Head(Head(r.chain))

CategoryOf(status) ==
    CASE status = 401 -> "unauthorized"
      [] status = 404 -> "not found"
      [] status = 429 -> "rate limited"
      [] status >= 500 /\ status <= 599 -> "server error"
      [] OTHER -> "request failed"

\* C14: for every status outside 200..299 the verb returns an error of one
\* message whose literal head the status alone decides: "unauthorized" for
\* 401, "not found" for 404, "rate limited" for 429, "server error" for 500 to
\* 599, "request failed" for every other; the messages of 404, of 500 to 599
\* and of the other statuses end with the body text as received, those of 500
\* to 599 and of the other statuses hold the status; the four named heads are
\* distinct.
C14_StatusDecidesError ==
    (Responded /\ ~is_success(Unwrap(response).status)) =>
        LET r == Unwrap(response)
            msg == Head(data.chain)
        IN /\ IsErr(data)
           /\ Len(data.chain) = 1
           /\ Category(data) = CategoryOf(r.status)
           /\ (r.status \notin {401, 429} /\ r.body.read) =>
                 msg[Len(msg)] = r.body.text
           /\ r.status \notin {401, 404, 429} =>
                 Contains(msg, <<StatusDisplay(r.status)>>)
           /\ Cardinality({CategoryOf(s) : s \in {401, 404, 429, 500}}) = 4

\* C14 witness: a 503 response with the body "not found" has given the server
\* error with the status and that body.
C14_Witness ==
    /\ Responded
    /\ Unwrap(response) = Reply(503, TextBody)
    /\ data = Err(<<<<"server error", " (", "503", "): ", "not found">>>>)

\* C15: for every 2xx response, whichever verb was called, the verb returns
\* the JSON value the body denotes when the body is valid JSON, and an error
\* when it is not (an empty body included).
C15_SuccessBodyParsed ==
    (Responded /\ is_success(Unwrap(response).status)) =>
        LET b == Unwrap(response).body IN
        IF b.read /\ IsSome(b.json)
        THEN data = Ok(Unwrap(b.json))
        ELSE IsErr(data)

\* C15 witness: delete got 204 with an empty body and returned an error.
C15_Witness ==
    /\ Responded
    /\ requests[1].method = "DELETE"
    /\ Unwrap(response) = Reply(204, EmptyBody)
    /\ IsErr(data)
    /\ Head(data.chain) = <<"failed to parse response JSON">>

\* C16: a call of a verb sends at most one request, and the step in which
\* send().await ends, with a failure or with any response, is the step in
\* which the verb returns: nothing more is sent, and a transport failure or a
\* status outside 200..299 is returned as an error.
C16_OneRequestNoRetry ==
    /\ [](Len(requests) <= 1)
    /\ [][pc = "sent" =>
            /\ pc' = "verb returned"
            /\ requests' = requests
            /\ (Unwrap(response').kind = "failure"
                \/ ~is_success(Unwrap(response').status)) => IsErr(data')]_vars

\* C16 witness: the request timed out and the verb has returned the error,
\* one request sent.
C16_Witness ==
    /\ VerbReturned
    /\ Unwrap(response) = Failure("operation timed out")
    /\ IsErr(data)
    /\ Len(requests) = 1

-----------------------------------------------------------------------------
(* Claims about a run of the process *)

Exited == pc = "exited"

\* the Settings of the run, as Client::new is given it
TheSettings == [result.val EXCEPT !.base_url = Text(@)]

\* C12: when the Settings that load returned has no api_key, Client::new
\* returns an error whose message contains "API key is required"; in the run
\* no client is built and no request is sent, and when the run has a
\* workspace it ends with that error on standard error.
C12_NoApiKeyNoClient ==
    (IsOk(result) /\ ~IsSome(result.val.api_key)) =>
        LET c == Client_new(TheSettings, TheCommand.json) IN
        /\ IsErr(c)
        /\ Contains(Head(c.chain), <<"API key is required">>)
        /\ client = None
        /\ requests = <<>>
        /\ pc \notin {"handler", "call", "sent", "verb returned"}
        /\ (Exited /\ IsSome(result.val.workspace)) =>
              /\ stderr = ReportError(c.chain)
              /\ exit_code = Some(1)

\* C12 witness: a run with a workspace and no API key has ended with the
\* error of Client::new, nothing sent.
C12_Witness ==
    /\ Exited /\ IsOk(result)
    /\ ~IsSome(result.val.api_key)
    /\ IsSome(result.val.workspace)
    /\ Contains(stderr[1], <<"API key is required">>)
    /\ requests = <<>>

\* C13: when the Settings that load returned has no workspace, the run, for
\* whichever subcommand, ends at the workspace check with an error that
\* names the workspace on standard error and an exit code that is not 0, and
\* no client is built and no request is sent.
C13_NoWorkspaceFails ==
    (IsOk(result) /\ ~IsSome(result.val.workspace)) =>
        /\ client = None
        /\ requests = <<>>
        /\ pc \in {"workspace", "exited"}
        /\ Exited =>
              /\ exit_code \notin {None, Some(0)}
              /\ Len(stderr) = 1
              /\ Contains(stderr[1], <<"workspace is required">>)

\* C13 witness: issues create with an API key and no workspace has failed.
C13_Witness ==
    /\ Exited /\ IsOk(result)
    /\ ~IsSome(result.val.workspace)
    /\ IsSome(result.val.api_key)
    /\ TheCommand.command = <<"issues", "create">>
    /\ exit_code = Some(1)
    /\ requests = <<>>

\* C17 as the spec states it: a run whose Settings has an api_key and a
\* workspace has sent exactly one request when it ends.
C17_ResolvedRunSendsOneRequest ==
    (Exited /\ IsOk(result)
       /\ IsSome(result.val.api_key) /\ IsSome(result.val.workspace)) =>
        Len(requests) = 1

\* C17, amended: a run whose Settings has a workspace and an api_key that is
\* a legal header value (so that Client::new builds the client) has sent
\* exactly one request when it ends; no run sends more than one; nothing is
\* on standard output of a run that resolved its settings before the request
\* got its reply; and a run in which settings resolution, the workspace check
\* or Client::new failed has sent none.
C17_OneRequestBeforeOutput ==
    /\ Len(requests) <= 1
    /\ (Exited /\ IsOk(result)
          /\ IsSome(result.val.api_key) /\ IsSome(result.val.workspace)
          /\ IsOk(HeaderValue_from_str(Unwrap(result.val.api_key)))) =>
           Len(requests) = 1
    /\ (IsOk(result) /\ stdout # <<>>) => (Len(requests) = 1 /\ response # None)
    /\ (pc \in {"main", "load", "workspace", "client"} \/ client = None) =>
           requests = <<>>
    /\ (Exited /\ client # None) => Len(requests) = 1

\* C17 witness: a run has printed its result after its one request was
\* answered.
C17_Witness ==
    /\ Exited /\ exit_code = Some(0)
    /\ IsOk(result)
    /\ Len(requests) = 1
    /\ response # None
    /\ stdout # <<>>

\* how a run that has ended went
Outcome ==
    LET r == Cli_parse(Unwrap(argv)) IN
    IF r.tag = "Help" THEN "help"
    ELSE IF r.tag = "Usage" THEN "usage error"
    ELSE IF result.tag = "Panic" THEN "panic"
    ELSE IF IsErr(result) \/ ~IsSome(result.val.workspace) \/ client = None
              \/ IsErr(data)
    THEN "error"
    ELSE IF IsErr(Output(TheCommand, data.val).ret) THEN "error"
    ELSE "success"

\* C18 as the spec states it: a run ends with code 0 and nothing on standard
\* error, or with code 1 and a message on standard error.
C18_ExitZeroOrOne ==
    Exited =>
        \/ exit_code = Some(0) /\ stderr = <<>>
        \/ exit_code = Some(1) /\ stderr # <<>>

\* C18, amended: a run ends with code 0 when the command succeeds (or --help
\* is printed), with code 2 when the command line is rejected, with code 1
\* when main returns an error (settings, workspace, client, transport, status
\* or decoding), and with code 101 when Settings::load panics; whenever the
\* code is not 0 a message is on standard error, and when it is 0 none is.
C18_ExitCodes ==
    Exited =>
        /\ exit_code = Some(CASE Outcome \in {"help", "success"} -> 0
                              [] Outcome = "usage error" -> 2
                              [] Outcome = "error" -> 1
                              [] Outcome = "panic" -> 101)
        /\ (Outcome \in {"help", "success"}) <=> (stderr = <<>>)
        /\ Outcome = "error" => Head(stderr[1]) = "Error: "

\* C18 witness: a command line without a required option was rejected with
\* code 2.
C18_Witness ==
    /\ Exited
    /\ Unwrap(argv).command = <<"issues", "create">>
    /\ Unwrap(argv).opts["title"] = <<>>
    /\ exit_code = Some(2)
    /\ stderr # <<>>

\* the key of the body for each option of issues create
BodyKey ==
    [description |-> "description_html", state |-> "state",
     priority |-> "priority", assignee |-> "assignees", label |-> "labels"]

\* C19: the body of the request that issues create sends is an object that
\* always has name, the title; it has description_html, state, priority as
\* the string given exactly when the option was given, and assignees, labels
\* as the array of the given strings exactly when at least one was given; it
\* has no other key, and so no null and no empty array.
C19_CreateBodyHasSuppliedOnly ==
    (requests # <<>> /\ TheCommand.command = <<"issues", "create">>) =>
        LET opts == Unwrap(argv).opts
            body == Unwrap(requests[1].body)
        IN /\ requests[1].method = "POST"
           /\ body.t = "obj"
           /\ "name" \in DOMAIN body.v
           /\ body.v["name"] = JStr(opts["title"][1])
           /\ \A o \in DOMAIN BodyKey :
                 /\ (BodyKey[o] \in DOMAIN body.v) <=> (opts[o] # <<>>)
                 /\ opts[o] # <<>> =>
                       body.v[BodyKey[o]] =
                          IF o \in {"assignee", "label"}
                          THEN JArr([i \in DOMAIN opts[o] |-> JStr(opts[o][i])])
                          ELSE JStr(opts[o][1])
           /\ DOMAIN body.v \subseteq {"name"} \cup {BodyKey[o] : o \in DOMAIN BodyKey}
           /\ \A k \in DOMAIN body.v : body.v[k] \notin {JNull, JArr(<<>>)}

\* C19 witness: issues create with two assignees and nothing else optional
\* has sent a body with name and assignees only.
C19_Witness ==
    /\ requests # <<>>
    /\ TheCommand.command = <<"issues", "create">>
    /\ Unwrap(requests[1].body) =
          JObj([name |-> JStr("Title"), assignees |-> JArr(<<JStr("m1"), JStr("m2")>>)])

\* C20: issues create with a --priority outside none, urgent, high, medium,
\* low is rejected by the argument parser: the run ends with an "invalid
\* value" error on standard error and a failing exit code, with no settings
\* resolved and no request sent.
C20_InvalidPriorityRejected ==
    LET a == Unwrap(argv) IN
    (pc # "main" /\ ~a.help /\ a.command = <<"issues", "create">>
       /\ a.opts["priority"] # <<>> /\ a.opts["priority"][1] \notin PriorityNames) =>
        /\ Exited
        /\ exit_code \notin {None, Some(0)}
        /\ Len(stderr) = 1
        /\ Contains(stderr[1], <<"invalid value">>)
        /\ result = Pending
        /\ requests = <<>>

-----------------------------------------------------------------------------
(* Claims about the output of the handlers *)

\* the run has ended after the verb returned a value, for the command cmd
Printed(cmd) ==
    /\ Exited /\ IsOk(result) /\ IsOk(data)
    /\ TheCommand.command = cmd

\* C21: members list without --json, given a 2xx body that is JSON: when the
\* body is an array its elements are the rows; otherwise, when it holds an
\* array under results, the elements of that are; the run fails, with
\* "unexpected response format" and nothing printed, only when neither is an
\* array.  (An array has no keys, so the order of the two tries cannot be
\* seen in the result.)
C21_MembersBothShapes ==
    (Printed(<<"members", "list">>) /\ ~TheCommand.json) =>
        LET doc == data.val
            results == Index(doc, "results")
            rows == IF doc.t = "arr" THEN Some(doc.v)
                    ELSE IF results.t = "arr" THEN Some(results.v)
                    ELSE None
        IN IF rows = None
           THEN /\ exit_code = Some(1)
                /\ stdout = <<>>
                /\ Contains(stderr[1], <<"unexpected response format">>)
           ELSE /\ exit_code = Some(0)
                /\ stderr = <<>>
                /\ stdout = IF Unwrap(rows) = <<>>
                            THEN <<[fmt |-> "text", text |-> "No members found."]>>
                            ELSE <<[fmt |-> "table", rows |-> Unwrap(rows)]>>

\* C21 witness: members list got an array at the top level and printed it as
\* a table.
C21_Witness ==
    /\ Printed(<<"members", "list">>) /\ ~TheCommand.json
    /\ data.val = JArr(<<Item>>)
    /\ stdout = <<[fmt |-> "table", rows |-> <<Item>>]>>
    /\ exit_code = Some(0)

\* the list handlers that read the rows under results only
ResultsLists ==
    {<<"projects", "list">>, <<"states", "list">>, <<"labels", "list">>,
     <<"issues", "list">>}

\* C25: when the verb returned the value of a 2xx body, a run with --json,
\* whichever its handler, prints that value (the value the body denotes,
\* printed anew) and ends with code 0, whatever the shape of the value; a run
\* without --json of projects list, states list, labels list or issues list
\* whose value has no array under results prints nothing and ends with the
\* error "unexpected response format".
C25_JsonModePrintsAnyShape ==
    (Exited /\ IsOk(result) /\ IsOk(data)) =>
        /\ TheCommand.json =>
              /\ stdout = <<[fmt |-> "json", doc |-> Unwrap(Unwrap(response).body.json)]>>
              /\ stderr = <<>>
              /\ exit_code = Some(0)
        /\ (~TheCommand.json /\ TheCommand.command \in ResultsLists
              /\ Index(data.val, "results").t # "arr") =>
              /\ stdout = <<>>
              /\ Contains(stderr[1], <<"unexpected response format">>)
              /\ exit_code = Some(1)

\* C25 witness: projects list --json got an object without results, printed
\* it and succeeded.
C25_Witness ==
    /\ Printed(<<"projects", "list">>) /\ TheCommand.json
    /\ data.val = Item
    /\ stdout = <<[fmt |-> "json", doc |-> Item]>>
    /\ exit_code = Some(0)

-----------------------------------------------------------------------------
(* Claims about the URL of a request *)

\* C22: whatever the number of slashes at the end of the base_url the client
\* was built from and at the start of the path the verb was called with, the
\* request goes to the base_url without those slashes, then "/api/v1/", then
\* the path without those slashes: one slash at each of the two joins.
C22_UrlJoinsWithOneSlash ==
    requests # <<>> =>
        LET b == result.val.base_url
            p == TheCall.path
        IN \E k \in 0..Len(b), j \in 0..Len(p) :
              LET stem == SubSeq(b, 1, Len(b) - k)
                  rest == SubSeq(p, j + 1, Len(p))
              IN /\ b = stem \o Slashes(k)
                 /\ p = Slashes(j) \o rest
                 /\ stem # <<>> /\ stem[Len(stem)] # "/"
                 /\ rest # <<>> /\ Head(rest) # "/"
                 /\ requests[1].url = stem \o <<"/", "api/v1", "/">> \o rest

\* C22 witness: a POST with two slashes at the end of the base_url and two at
\* the start of the path went to the URL with one slash at each join.
C22_Witness ==
    /\ requests # <<>>
    /\ requests[1].method = "POST"
    /\ result.val.base_url = <<"http://127.0.0.1:8080", "/", "/">>
    /\ TheCall.path = <<"/", "/", "workspaces/ws/projects", "/">>
    /\ requests[1].url =
          <<"http://127.0.0.1:8080", "/", "api/v1", "/", "workspaces/ws/projects", "/">>

-----------------------------------------------------------------------------
(* Claims about the request of issues list *)

\* the values the query q gives the parameter name
QueryValues(q, name) == {q[i][2] : i \in {j \in DOMAIN q : q[j][1] = name}}
QueryCount(q, name) == Cardinality({j \in DOMAIN q : q[j][1] = name})

\* C26: the request of issues list carries per_page once, "50" when
\* --per-page is not given and the number given otherwise; it carries each of
\* state, assignee and cursor once, with the value given, when the option is
\* given, and not at all when it is not; it carries nothing else.
C26_IssuesListQuery ==
    (requests # <<>> /\ TheCommand.command = <<"issues", "list">>) =>
        LET q == requests[1].query
            opts == Unwrap(argv).opts
        IN /\ requests[1].method = "GET"
           /\ QueryCount(q, "per_page") = 1
           /\ opts["per_page"] = <<>> => QueryValues(q, "per_page") = {"50"}
           /\ opts["per_page"] = <<<<"2", "5">>>> => QueryValues(q, "per_page") = {"25"}
           /\ \A o \in {"state", "assignee", "cursor"} :
                 IF opts[o] = <<>>
                 THEN QueryCount(q, o) = 0
                 ELSE QueryCount(q, o) = 1 /\ QueryValues(q, o) = {opts[o][1]}
           /\ \A i \in DOMAIN q :
                 q[i][1] \in {"per_page", "state", "assignee", "cursor"}

\* C26 witness: issues list with --state and --cursor has sent per_page=50,
\* state and cursor.
C26_Witness ==
    /\ requests # <<>>
    /\ TheCommand.command = <<"issues", "list">>
    /\ requests[1].query =
          <<<<"per_page", "50">>, <<"state", "st-1">>, <<"cursor", "20:1:0">>>>

-----------------------------------------------------------------------------
(* Claims about the order of the checks in main *)

\* some message on standard error holds the piece
OnStderr(piece) == \E i \in DOMAIN stderr : Contains(stderr[i], <<piece>>)

\* C29: the workspace check comes before Client::new: a run whose Settings
\* has neither api_key nor workspace ends with the workspace-required error
\* and without the API-key-required error; and a run whose Settings lacks the
\* workspace, the api_key or both sends no request.
C29_WorkspaceCheckedFirst ==
    /\ (Exited /\ IsOk(result)
          /\ ~IsSome(result.val.api_key) /\ ~IsSome(result.val.workspace)) =>
           /\ OnStderr("workspace is required")
           /\ ~OnStderr("API key is required")
           /\ exit_code = Some(1)
    /\ (IsOk(result)
          /\ (~IsSome(result.val.api_key) \/ ~IsSome(result.val.workspace))) =>
           requests = <<>>

\* C29 witness: a run with neither api_key nor workspace has ended with the
\* workspace-required error.
C29_Witness ==
    /\ Exited /\ IsOk(result)
    /\ ~IsSome(result.val.api_key) /\ ~IsSome(result.val.workspace)
    /\ OnStderr("workspace is required")
    /\ requests = <<>>

-----------------------------------------------------------------------------
(* Further claims about deep_merge *)

\* C24: merging the overlay into the result of the merge once more changes
\* nothing; and when base and overlay are objects with no key in common, the
\* result is the object with the keys of both, each with the value it has in
\* the one that holds it.
C24_MergeIdempotentAndDisjointUnion ==
    Merged =>
        /\ deep_merge(value, overlay_arg) = value
        /\ (base_arg.t = "obj" /\ overlay_arg.t = "obj"
              /\ DOMAIN base_arg.v \cap DOMAIN overlay_arg.v = {}) =>
               /\ value.t = "obj"
               /\ DOMAIN value.v = DOMAIN base_arg.v \cup DOMAIN overlay_arg.v
               /\ \A k \in DOMAIN base_arg.v : value.v[k] = base_arg.v[k]
               /\ \A k \in DOMAIN overlay_arg.v : value.v[k] = overlay_arg.v[k]

\* C24 witness: {a: 1} merged with {b: [2]} has given {a: 1, b: [2]}.
C24_Witness ==
    /\ Merged
    /\ base_arg = JObj([a |-> JNum(1)])
    /\ overlay_arg = JObj([b |-> JArr(<<JNum(2)>>)])
    /\ value = JObj([a |-> JNum(1), b |-> JArr(<<JNum(2)>>)])

-----------------------------------------------------------------------------
(* Further claims about the layers of Settings::load *)

\* the entries of the object `after` that differ from those of `before`
ChangedKeys(before, after) ==
    {k \in DOMAIN before.v \cup DOMAIN after.v :
       ~(k \in DOMAIN before.v /\ k \in DOMAIN after.v /\ after.v[k] = before.v[k])}

\* C23: the environment layer changes no entry of the document but those of
\* the fields whose variable is set, and the CLI layer none but those of the
\* fields whose flag is given: with no settings variable set the document
\* after merge_env is the document before it, with no flag given the document
\* after merge_cli is the document before it.
C23_LayersChangeOnlyGiven ==
    [][/\ (pc = "env" /\ value.t = "obj") =>
             /\ value'.t = "obj"
             /\ ChangedKeys(value, value') \subseteq
                   {f \in Fields : IsSome(env[EnvVarOf(f)])}
             /\ (\A f \in Fields : ~IsSome(env[EnvVarOf(f)])) => value' = value
       /\ (pc = "cli" /\ value.t = "obj") =>
             /\ value'.t = "obj"
             /\ ChangedKeys(value, value') \subseteq {f \in Fields : IsSome(cli[f])}
             /\ (\A f \in Fields : ~IsSome(cli[f])) => value' = value]_vars

\* C23 witness: the environment gave the API key only and no flag was given;
\* after both layers the workspace of the config file is still there, next to
\* the key of the environment.
C23_Witness ==
    /\ pc = "decode"
    /\ IsSome(env[EnvApiKey]) /\ ~IsSome(env[EnvWorkspace])
    /\ cli = NoCli
    /\ value.v["api_key"] = JStr("env-key")
    /\ value.v["workspace"] = JStr("file-value")

\* settings.local.json gives the field f the value null, and neither the
\* environment nor the CLI sets f; settings.json is no failing file
LocalNullStands(f) ==
    /\ ~BadFile(SettingsJson)
    /\ FileSets(SettingsLocalJson, f)
    /\ FileGives(SettingsLocalJson, f) = JNull
    /\ ~EnvSets(f) /\ ~CliSets(f)

\* C27: when settings.local.json gives a field the value null and neither the
\* environment nor the CLI sets the field, then, whatever settings.json gives
\* it, a returned Settings has no api_key (no workspace), and for base_url or
\* timeout Settings::load returns the error headed "failed to parse merged
\* settings" and not the default.
C27_NullUnsetsLowerLayer ==
    Returned =>
        \A f \in Fields :
            LocalNullStands(f) =>
                IF f \in {"api_key", "workspace"}
                THEN IsOk(result) => result.val[f] = None
                ELSE /\ IsErr(result)
                     /\ Head(result.chain) = <<"failed to parse merged settings">>

\* C27 witness: settings.json gave the API key a string, settings.local.json
\* gave it null, and the Settings returned have no API key.
C27_Witness ==
    /\ Returned /\ IsOk(result)
    /\ FileSets(SettingsJson, "api_key")
    /\ FileGives(SettingsJson, "api_key") = JStr("file-value")
    /\ LocalNullStands("api_key")
    /\ result.val["api_key"] = None

\* the CLI overrides give all four fields
AllFlagsGiven == \A f \in Fields : CliSets(f)

\* C28: a config file that cannot be read or parsed ends Settings::load at
\* that file: the step returns the error, leaves the document as it was and
\* no later layer is applied. So when settings.json is such a file, load has
\* returned an error about settings.json, and the document is still the
\* defaults, whatever settings.local.json, the environment and the CLI give.
C28_StopsAtFirstFailingFile ==
    /\ [][\A name \in FileNames :
             (pc = name /\ BadFile(name)) =>
                 /\ pc' = "returned"
                 /\ IsErr(result')
                 /\ value' = value]_vars
    /\ [](Returned /\ BadFile(SettingsJson) =>
             /\ IsErr(result)
             /\ Contains(result.chain[1], ConfigPath(env, SettingsJson))
             /\ value = ToValue(DefaultSettings))

\* C28 witness: settings.json is not valid JSON, settings.local.json holds a
\* document and the CLI gives all four fields; load has returned the error and
\* the document holds none of the given values.
C28_Witness ==
    /\ Returned /\ IsErr(result)
    /\ fs[SettingsJson] = Garbage
    /\ FileHasDoc(SettingsLocalJson)
    /\ AllFlagsGiven
    /\ value = ToValue(DefaultSettings)

\* a config file that does not exist, or holds an object
MissingOrObject(name) ==
    fs[name] = Missing \/ (FileHasDoc(name) /\ FileDoc(name).t = "obj")

\* C30: the types are checked on the merged document only. When a config
\* file gives a field a value of the wrong type and a higher layer (the other
\* file, a timeout variable that parses, any other variable, a flag) puts a
\* well-typed value in its place, Settings::load returns a Settings, provided
\* the other fields end well typed; when the value that ends up in the
\* merged document is of the wrong type, load returns the error headed
\* "failed to parse merged settings".
C30_TypesCheckedAfterMerge ==
    (Returned /\ \A name \in FileNames : MissingOrObject(name)) =>
        \A name \in FileNames : \A f \in Fields :
            (FileSets(name, f) /\ WrongType(f, FileGives(name, f))) =>
                IF WrongType(f, HighestGives(f))
                THEN /\ IsErr(result)
                     /\ Head(result.chain) = <<"failed to parse merged settings">>
                ELSE (\A g \in Fields \ {f} : ~WrongType(g, HighestGives(g))) =>
                        /\ IsOk(result)
                        /\ FieldValue(result.val, f) = HighestGives(f)

\* C30 witness: settings.json gives the timeout as a string, the --timeout
\* flag gives 999, and the Settings returned hold 999.
C30_Witness ==
    /\ Returned /\ IsOk(result)
    /\ FileSets(SettingsJson, "timeout")
    /\ FileGives(SettingsJson, "timeout") = JStr("file-value")
    /\ CliSets("timeout")
    /\ result.val["timeout"] = 999

=============================================================================
